---- MODULE Spec2Model ----
(***************************************************************************)
(* Response-resolution pipeline of the QuickBooks support-chat assistant:  *)
(* SmolLMBrain (cache / model inference / rule fallback) as one state      *)
(* machine, with its pure helpers (normalizeMessage, cleanResponse,        *)
(* isGenericResponse, getQuickBooksGuidance) computed on strings; the      *)
(* AIBrain adapter, the LocalRAG retrieval engine with its scoring         *)
(* helpers, and the QuickBooksAI page that drives them.                    *)
(***************************************************************************)
EXTENDS Integers, Sequences, FiniteSets, TLC

(***************************************************************************)
(* Strings.  JavaScript strings are modelled by TLA+ strings; the helpers  *)
(* below are the String.prototype methods and regular expressions the      *)
(* source uses, restricted to ASCII text.                                  *)
(***************************************************************************)
UpperChars == "ABCDEFGHIJKLMNOPQRSTUVWXYZ"

LowerChars == "abcdefghijklmnopqrstuvwxyz"

DigitChars == "0123456789_"

CharAt(s, i) == SubSeq(s, i, i)

CharIn(ch, alphabet) == \E i \in 1..Len(alphabet) : CharAt(alphabet, i) = ch

\* one character of String.prototype.toLowerCase
LowerChar(ch) ==
    IF CharIn(ch, UpperChars)
    THEN CharAt(LowerChars, CHOOSE i \in 1..Len(UpperChars) : CharAt(UpperChars, i) = ch)
    ELSE ch

\* the regular-expression class \w
IsWordChar(ch) == CharIn(ch, UpperChars) \/ CharIn(ch, LowerChars) \/ CharIn(ch, DigitChars)

\* the regular-expression class \s
IsSpaceChar(ch) == ch \in {" ", "\n", "\t"}

\* the least index in lo..Len(s) whose character is (isSpace = want), or
\* Len(s) + 1 when there is none
FirstSpaceIs(s, lo, want) ==
    LET hits == { x \in lo..Len(s) : IsSpaceChar(CharAt(s, x)) = want }
    IN  IF hits = {} THEN Len(s) + 1 ELSE CHOOSE x \in hits : \A y \in hits : x <= y

\* the greatest index whose character is not white space, or 0
LastNonSpace(s) ==
    LET hits == { x \in 1..Len(s) : ~IsSpaceChar(CharAt(s, x)) }
    IN  IF hits = {} THEN 0 ELSE CHOOSE x \in hits : \A y \in hits : x >= y

\* String.prototype.toLowerCase, on the characters lo..hi
RECURSIVE LowerRange(_, _, _)
LowerRange(s, lo, hi) ==
    IF lo > hi THEN ""
    ELSE IF lo = hi THEN LowerChar(CharAt(s, lo))
    ELSE LET mid == (lo + hi) \div 2
         IN  LowerRange(s, lo, mid) \o LowerRange(s, mid + 1, hi)

toLowerCase(s) == LowerRange(s, 1, Len(s))

\* String.prototype.includes
includes(s, sub) ==
    \E i \in 1..(Len(s) - Len(sub) + 1) : SubSeq(s, i, i + Len(sub) - 1) = sub

StartsWith(s, sub) == Len(s) >= Len(sub) /\ SubSeq(s, 1, Len(sub)) = sub

TrimStart(s) == SubSeq(s, FirstSpaceIs(s, 1, FALSE), Len(s))

TrimEnd(s) == SubSeq(s, 1, LastNonSpace(s))

\* String.prototype.trim
trim(s) == TrimEnd(TrimStart(s))

\* String.prototype.substring(0, n)
substring0(s, n) == IF Len(s) <= n THEN s ELSE SubSeq(s, 1, n)

\* position i of s lies inside an occurrence of lit
InsideOccurrence(s, i, lit) ==
    \E j \in (i - Len(lit) + 1)..i :
        j >= 1 /\ j + Len(lit) - 1 <= Len(s) /\ SubSeq(s, j, j + Len(lit) - 1) = lit

\* s.replace(/<literal>/g, ''), on the characters lo..hi; the literals used
\* (the two role markers) cannot overlap themselves, so every occurrence is
\* a match of the left-to-right scan
RECURSIVE RemoveRange(_, _, _, _)
RemoveRange(s, lit, lo, hi) ==
    IF lo > hi THEN ""
    ELSE IF lo = hi THEN (IF InsideOccurrence(s, lo, lit) THEN "" ELSE CharAt(s, lo))
    ELSE LET mid == (lo + hi) \div 2
         IN  RemoveRange(s, lit, lo, mid) \o RemoveRange(s, lit, mid + 1, hi)

RemoveAll(s, lit) == RemoveRange(s, lit, 1, Len(s))

\* s.replace(/[^\w\s]/g, ''), on the characters lo..hi
RECURSIVE StripRange(_, _, _)
StripRange(s, lo, hi) ==
    IF lo > hi THEN ""
    ELSE IF lo = hi
         THEN (IF IsWordChar(CharAt(s, lo)) \/ IsSpaceChar(CharAt(s, lo)) THEN CharAt(s, lo) ELSE "")
    ELSE LET mid == (lo + hi) \div 2
         IN  StripRange(s, lo, mid) \o StripRange(s, mid + 1, hi)

StripNonWord(s) == StripRange(s, 1, Len(s))

\* s.replace(/\s+/g, ' '), on the characters lo..hi: a run of white space
\* leaves one blank, at the place of its first character
RECURSIVE CollapseRange(_, _, _)
CollapseRange(s, lo, hi) ==
    IF lo > hi THEN ""
    ELSE IF lo = hi
         THEN (IF ~IsSpaceChar(CharAt(s, lo)) THEN CharAt(s, lo)
               ELSE IF lo > 1 /\ IsSpaceChar(CharAt(s, lo - 1)) THEN "" ELSE " ")
    ELSE LET mid == (lo + hi) \div 2
         IN  CollapseRange(s, lo, mid) \o CollapseRange(s, mid + 1, hi)

CollapseSpaces(s) == CollapseRange(s, 1, Len(s))

IsSentenceEnd(ch) == ch \in {".", "!", "?"}

\* the least index in lo..Len(s) whose character is (a sentence end = want),
\* or Len(s) + 1 when there is none
FirstSentenceEndIs(s, lo, want) ==
    LET hits == { x \in lo..Len(s) : IsSentenceEnd(CharAt(s, x)) = want }
    IN  IF hits = {} THEN Len(s) + 1 ELSE CHOOSE x \in hits : \A y \in hits : x <= y

\* s.split(/[.!?]+/): the pieces between maximal runs of . ! ?, from the
\* piece that starts at index i
RECURSIVE SplitFrom(_, _)
SplitFrom(s, i) ==
    LET j == FirstSentenceEndIs(s, i, TRUE)
    IN  IF j > Len(s) THEN << SubSeq(s, i, Len(s)) >>
        ELSE << SubSeq(s, i, j - 1) >> \o SplitFrom(s, FirstSentenceEndIs(s, j, FALSE))

SplitSentences(s) == SplitFrom(s, 1)

\* Array.prototype.join
RECURSIVE join(_, _)
join(parts, sep) ==
    IF Len(parts) = 0 THEN ""
    ELSE IF Len(parts) = 1 THEN parts[1]
    ELSE parts[1] \o sep \o join(Tail(parts), sep)

(***************************************************************************)
(* SmolLMBrain: pure helpers                                               *)
(***************************************************************************)
\* number of entries responseCache may hold (this.maxCacheSize; the source
\* sets 50, the model runs the same code with a small capacity)
maxCacheSize == 2

\* key length limit of normalizeMessage
KeyLimit == 100

\* text.length > 15 in the acceptance test of generateResponse
MinAcceptLen == 15

\* text.length < 30 in isGenericResponse
ShortGenericLen == 30

\* the trailing fragment limit of cleanResponse
MinFragmentLen == 10

IM_START == "<|im_start|>"

IM_END == "<|im_end|>"

normalizeMessage(message) ==
    substring0(trim(CollapseSpaces(StripNonWord(toLowerCase(message)))), KeyLimit)

\* text.replace(/^assistant\s*/i, '')
StripAssistantLabel(text) ==
    IF Len(text) >= 9 /\ toLowerCase(SubSeq(text, 1, 9)) = "assistant"
    THEN TrimStart(SubSeq(text, 10, Len(text)))
    ELSE text

cleanResponse(text) ==
    LET stripped  == trim(StripAssistantLabel(RemoveAll(RemoveAll(text, IM_START), IM_END)))
        sentences == SplitSentences(stripped)
    IN  IF Len(sentences) > 1 /\ Len(trim(sentences[Len(sentences)])) < MinFragmentLen
        THEN join(SubSeq(sentences, 1, Len(sentences) - 1), ".") \o "."
        ELSE stripped

badPhrases ==
    << "I'm sorry for the confusion",
       "I'm unable to provide",
       "I'm not equipped to",
       "I can't help with",
       "I don't have access",
       "as a UDAS-guided AI",
       "I'm designed to assist you with your business needs" >>

\* the helper-word test without the length limit
isGenericResponse_AnyLength(text) ==
    LET low == toLowerCase(text)
    IN  \/ \E i \in 1..Len(badPhrases) : includes(low, toLowerCase(badPhrases[i]))
        \/ includes(low, "help") \/ includes(low, "assist")

isGenericResponse(text) ==
    LET low == toLowerCase(text)
        hasGenericAvoidance ==
            \E i \in 1..Len(badPhrases) : includes(low, toLowerCase(badPhrases[i]))
        tooShortAndGeneric ==
            Len(text) < ShortGenericLen /\ (includes(low, "help") \/ includes(low, "assist"))
    IN  hasGenericAvoidance \/ tooShortAndGeneric

\* the acceptance test without the length limit
AcceptsResponse_NotGenericOnly(text) == ~isGenericResponse(text)

\* the acceptance test with >= in place of >
AcceptsResponse_AtLeast15(text) == Len(text) >= MinAcceptLen /\ ~isGenericResponse(text)

\* text.length > 15 && !this.isGenericResponse(text)
AcceptsResponse(text) == Len(text) > MinAcceptLen /\ ~isGenericResponse(text)

\* the canned answers of getQuickBooksGuidance (the opening line of each)
BankingAnswer == "I understand how frustrating bank connection issues can be! Let's work through this systematically using UDAS troubleshooting."

InvoiceAnswer == "Create professional invoices in QuickBooks:"

ExpenseAnswer == "Track expenses efficiently:"

PayrollAnswer == "QuickBooks Payroll setup:"

ReportsAnswer == "Generate key financial reports:"

TaxAnswer == "QuickBooks tax features:"

InventoryAnswer == "Manage inventory in QuickBooks:"

TroubleshootingAnswer == "QuickBooks troubleshooting steps:"

DefaultAnswer == "I'm your QuickBooks Online AI assistant! I can help with:"

\* the if-chain of getQuickBooksGuidance on the lowercased message
GuidanceFor(message) ==
        IF includes(message, "bank") \/ includes(message, "connect") \/ includes(message, "link")
        THEN BankingAnswer
        ELSE IF includes(message, "invoice") \/ includes(message, "bill") \/ includes(message, "customer")
        THEN InvoiceAnswer
        ELSE IF includes(message, "expense") \/ includes(message, "receipt") \/ includes(message, "cost")
        THEN ExpenseAnswer
        ELSE IF includes(message, "payroll") \/ includes(message, "employee") \/ includes(message, "salary")
        THEN PayrollAnswer
        ELSE IF includes(message, "report") \/ includes(message, "profit") \/ includes(message, "loss") \/ includes(message, "financial")
        THEN ReportsAnswer
        ELSE IF includes(message, "tax") \/ includes(message, "1099") \/ includes(message, "deduction")
        THEN TaxAnswer
        ELSE IF includes(message, "inventory") \/ includes(message, "product") \/ includes(message, "stock")
        THEN InventoryAnswer
        ELSE IF includes(message, "error") \/ includes(message, "problem") \/ includes(message, "not working") \/ includes(message, "issue")
        THEN TroubleshootingAnswer
        ELSE DefaultAnswer

\* the rule table matched against the message as typed
getQuickBooksGuidance_CaseSensitive(userMessage) == GuidanceFor(userMessage)

getQuickBooksGuidance(userMessage) == GuidanceFor(toLowerCase(userMessage))

STILL_LOADING == "SmolLM2 model is still loading. Please wait..."

(***************************************************************************)
(* Inputs: the user messages sent to the pipeline and the values the model *)
(* runtime's createCompletion can produce.                                 *)
(***************************************************************************)
LongPrefix == "Hello there, me and my partner run a small bakery and we just moved over from paper ledgers; today we want to know about "

Messages ==
    { "How do I set up payroll?",
      "customer bank stock issue",
      "sync is not working",
      "?!",
      LongPrefix \o "payroll",
      LongPrefix \o "invoices" }

Completions ==
    { "<|im_start|>assistant\nOpen the Banking menu first. Then cli<|im_end|>",
      "Open Sales menu.",
      "Open Sales menu",
      "I can help you with that.",
      "I'm sorry for the confusion, but I'm unable to provide that answer.",
      "<|im_start|>assistant Sure thing!<|im_end|>" }

\* what awaiting createCompletion can produce: a string, a value that is
\* not a string, or a rejection
CompletionOutcomes ==
    { [kind |-> "text", text |-> t] : t \in Completions }
        \cup { [kind |-> "nonText", text |-> ""], [kind |-> "throws", text |-> ""] }

\* The pure helpers tabulated over the inputs (each is a function of its
\* argument alone, so the pipeline below reads the tables)
NormalizedKey == [m \in Messages |-> normalizeMessage(m)]

Guidance == [m \in Messages |-> getQuickBooksGuidance(m)]

Cleaned == [t \in Completions |-> cleanResponse(t)]

\* a gate that lets every cleaned output through
Accepted_Everything == [t \in Completions |-> TRUE]

Accepted == [t \in Completions |-> AcceptsResponse(Cleaned[t])]

\* what awaiting rag.searchRelevantKnowledge can produce: no match, some
\* matches, or a rejection
SearchOutcomes == { "none", "matches", "throws" }

\* the context block formatContextForPrompt renders for a non-empty match list
RAG_CONTEXT == "\n\n## Relevant Knowledge Context:"

\* number of initialize() invocations a behaviour makes
MaxInits == 2

\* number of generateResponse activations that can exist at once
MaxCalls == 2

InitIds == 1..MaxInits

Calls == 1..MaxCalls

NULL == "null"

\* a marker that is not a normalized key ('<' is never a word character)
NoKey == "<none>"

(***************************************************************************)
(* State                                                                   *)
(***************************************************************************)
VARIABLES
    isLoading,      \* SmolLMBrain.isLoading
    isReady,        \* SmolLMBrain.isReady
    llamaCpp,       \* SmolLMBrain.llamaCpp: NULL or the Wllama class
    wasmConfig,     \* SmolLMBrain.wasmConfig: NULL or the path table
    model,          \* SmolLMBrain.model: NULL or the Wllama instance
    ragReady,       \* SmolLMBrain.ragReady
    ragIsLoaded,    \* LocalRAG.isLoaded
    responseCache,  \* SmolLMBrain.responseCache: the Map's entries in iteration order
    inits,          \* the activations of initialize(): position and returned value
    calls,          \* the activations of generateResponse(): position, locals, returned value
    imports,        \* how often the runtime import was started
    modelLoads,     \* how often loadModelFromUrl was started
    ragLoads,       \* how often initialize() started the search index fetch
    initFailure,    \* history: a step of the model initialization has failed
    modelAnswered,  \* history: the model-sourced answers returned whose key has not been evicted since
    firstInserted,  \* history: the key of the first cache insertion
    insertCount,    \* history: number of cache insertions, saturating at maxCacheSize + 2
    aiBrain,        \* the AIBrain object: isLoading, isReady, generator
    aiInits,        \* the activations of AIBrain.initialize()
    aiCalls,        \* the activations of AIBrain.generateResponse()
    app,            \* the QuickBooksAI object: aiBrain, isLoading, the input field, the chat
    knowledge,      \* LocalRAG.knowledge: the categories loaded so far
    search,         \* the activation of LocalRAG.searchRelevantKnowledge()
    probe           \* the last direct call of a LocalRAG helper: name, arguments, outcome

aiVars == <<aiBrain, aiInits, aiCalls>>

uiVars == <<app>>

ragVars == <<knowledge, search, probe>>

brainVars == <<isLoading, isReady, llamaCpp, wasmConfig, model, ragReady, ragIsLoaded>>

loadCounters == <<imports, modelLoads, ragLoads>>

historyVars == <<initFailure, modelAnswered, firstInserted, insertCount>>

vars == <<isLoading, isReady, llamaCpp, wasmConfig, model, ragReady, ragIsLoaded,
          responseCache, inits, calls, imports, modelLoads, ragLoads,
          initFailure, modelAnswered, firstInserted, insertCount,
          aiBrain, aiInits, aiCalls, app, knowledge, search, probe>>

\* the SmolLMBrain object with its activations and history
pipelineVars == <<brainVars, responseCache, inits, calls, loadCounters, historyVars>>

\* the value a pending generateResponse promise has not produced yet
NoResult == [success |-> FALSE, message |-> "", source |-> "pending"]

\* what an activation has received from createCompletion so far
NoOutput == [kind |-> "none", text |-> ""]

IdleCall == [pc |-> "idle", msg |-> "", key |-> "", ragContext |-> "",
             readyAtEntry |-> FALSE, retrievals |-> 0, inferences |-> 0,
             output |-> NoOutput, result |-> NoResult]

\* AIBrain's constructor
NewAIBrain == [isLoading |-> FALSE, isReady |-> FALSE, generator |-> NULL]

\* an AIBrain.generateResponse activation; failedAtEntry records that it
\* was called when a load had failed and none was running or complete
AiIdleCall ==
    [pc |-> "idle", msg |-> "", failedAtEntry |-> FALSE, output |-> NoOutput, result |-> NoResult]

\* QuickBooksAI's constructor: aiBrain is not assigned before the timer it
\* sets has fired
NewQuickBooksAI ==
    [aiBrain |-> "undefined",   \* this.aiBrain: which class it was built from
     isLoading |-> FALSE,       \* this.isLoading
     input |-> "",              \* this.messageInput.value
     reply |-> "",              \* the bot message added last
     replySource |-> "none",    \* where that reply came from
     sentWhenReady |-> FALSE,   \* whether its message was sent after initialization
     owed |-> 0,                \* history: user messages added minus bot messages added
     lastEvent |-> "none"]      \* whether the last send handler passed its guard

\* LocalRAG's constructor: this.categories and the empty this.knowledge
categories == <<"banking", "invoicing", "payroll", "reports", "inventory">>

CategorySet == { categories[i] : i \in 1..Len(categories) }

NotLoaded == "undefined"

\* this.knowledge[category] once the category file has been stored
Loaded == "loaded"

\* no helper has been called directly yet
NoProbe == [fn |-> "none", args |-> <<>>, out |-> [threw |-> FALSE, value |-> <<>>]]

\* a searchRelevantKnowledge activation: its arguments, the relevant
\* categories and the one being fetched, the matches pushed so far, the
\* categories whose fetch failed, and what it returned or that it threw
IdleSearch ==
    [pc |-> "idle", msg |-> "", layer |-> "", cats |-> <<>>, k |-> 0,
     matches |-> <<>>, failed |-> {}, loadedNow |-> {}, result |-> <<>>, threw |-> FALSE]

Init ==
    /\ isLoading = FALSE
    /\ isReady = FALSE
    /\ llamaCpp = NULL
    /\ wasmConfig = NULL
    /\ model = NULL
    /\ ragReady = FALSE
    /\ ragIsLoaded = FALSE
    /\ responseCache = <<>>
    /\ inits = [i \in InitIds |-> [pc |-> "notCalled", ret |-> "pending"]]
    /\ calls = [c \in Calls |-> IdleCall]
    /\ imports = 0
    /\ modelLoads = 0
    /\ ragLoads = 0
    /\ initFailure = FALSE
    /\ modelAnswered = {}
    /\ firstInserted = NoKey
    /\ insertCount = 0
    /\ aiBrain = NewAIBrain
    /\ aiInits = [i \in InitIds |-> [pc |-> "notCalled", ret |-> "pending"]]
    /\ aiCalls = [c \in Calls |-> AiIdleCall]
    /\ app = NewQuickBooksAI
    /\ knowledge = [category \in CategorySet |-> NotLoaded]
    /\ search = IdleSearch
    /\ probe = NoProbe

(***************************************************************************)
(* The Map behind responseCache: entries in insertion order                *)
(***************************************************************************)
CacheKeys(cache) == { cache[i].key : i \in 1..Len(cache) }

\* Map.prototype.get; a missing key gives undefined, modelled by ""
MapGet(cache, k) ==
    IF k \in CacheKeys(cache)
    THEN cache[CHOOSE i \in 1..Len(cache) : cache[i].key = k].value
    ELSE ""

\* Map.prototype.delete
MapDelete(cache, k) == SelectSeq(cache, LAMBDA e : e.key # k)

\* Map.prototype.set: an existing key keeps its position
MapSet(cache, k, v) ==
    IF k \in CacheKeys(cache)
    THEN [i \in 1..Len(cache) |-> IF cache[i].key = k THEN [key |-> k, value |-> v] ELSE cache[i]]
    ELSE Append(cache, [key |-> k, value |-> v])

\* this.responseCache.keys().next().value
FirstKey(cache) == IF Len(cache) > 0 THEN cache[1].key ELSE NoKey

\* an insertion that never evicts
cacheResponse_NoEviction(cache, key, response) == MapSet(cache, key, response)

\* the capacity test with > in place of >=
cacheResponse_OffByOne(cache, key, response) ==
    LET managed == IF Len(cache) > maxCacheSize
                   THEN MapDelete(cache, FirstKey(cache))
                   ELSE cache
    IN  MapSet(managed, key, response)

\* eviction of the newest entry in place of the oldest
cacheResponse_EvictNewest(cache, key, response) ==
    LET managed == IF Len(cache) >= maxCacheSize
                   THEN MapDelete(cache, cache[Len(cache)].key)
                   ELSE cache
    IN  MapSet(managed, key, response)

cacheResponse(cache, key, response) ==
    LET managed == IF Len(cache) >= maxCacheSize
                   THEN MapDelete(cache, FirstKey(cache))
                   ELSE cache
    IN  MapSet(managed, key, response)

\* the lookup made with the message as typed
CacheLookup_RawKey(cache, message) == MapGet(cache, message)

\* const cachedResponse = this.responseCache.get(cacheKey); if (cachedResponse)
CacheLookup(cache, message) == MapGet(cache, NormalizedKey[message])

(***************************************************************************)
(* SmolLMBrain.initialize and the loaders it awaits                        *)
(***************************************************************************)
BoolStr(b) == IF b THEN "true" ELSE "false"

\* the guard without the isLoading test
InitializeGuard_ReadyOnly == isReady

\* if (this.isLoading || this.isReady) return this.isReady;
InitializeGuard == isLoading \/ isReady

\* if (!this.llamaCpp || !this.wasmConfig) return;   (negated)
RuntimeAvailable(l, w) == l # NULL /\ w # NULL

\* the catch block without this.model = null
ModelAfterLoad_KeepHandle(ok, handle) == handle

\* loadModel's outcome: the catch block drops the handle
ModelAfterLoad(ok, handle) == IF ok THEN handle ELSE NULL

\* initializeRAG and the tail of initialize: rag.initialize() answers at once
\* when the index is already loaded, otherwise it fetches the search index
RagStage(i) ==
    IF ragIsLoaded
    THEN /\ ragReady' = TRUE
         /\ isReady' = TRUE
         /\ isLoading' = FALSE
         /\ inits' = [inits EXCEPT ![i] = [pc |-> "returned", ret |-> "true"]]
         /\ UNCHANGED ragLoads
    ELSE /\ ragLoads' = ragLoads + 1
         /\ inits' = [inits EXCEPT ![i] = [pc |-> "awaitRagIndex", ret |-> "pending"]]
         /\ UNCHANGED <<isLoading, isReady, ragReady>>

\* initialize(): from the call to the import of the runtime
EnterInitialize(i) ==
    /\ inits[i].pc = "notCalled"
    /\ \A j \in InitIds : j < i => inits[j].pc # "notCalled"
    /\ IF InitializeGuard
       THEN /\ inits' = [inits EXCEPT ![i] = [pc |-> "returned", ret |-> BoolStr(isReady)]]
            /\ UNCHANGED <<isLoading, imports>>
       ELSE /\ isLoading' = TRUE
            /\ imports' = imports + 1
            /\ inits' = [inits EXCEPT ![i] = [pc |-> "awaitImport", ret |-> "pending"]]

initialize(i) ==
    /\ EnterInitialize(i)
    /\ UNCHANGED <<aiVars, uiVars, ragVars>>
    /\ UNCHANGED <<isReady, llamaCpp, wasmConfig, model, ragReady, ragIsLoaded,
                   responseCache, calls, modelLoads, ragLoads, historyVars>>

\* loadLlamaCppWasm after its import settles, then loadModel up to
\* loadModelFromUrl (ctorOk: new this.llamaCpp(...) does not throw)
ImportDone(i, ok, ctorOk) ==
    /\ inits[i].pc = "awaitImport"
    /\ llamaCpp' = IF ok THEN "Wllama" ELSE NULL
    /\ wasmConfig' = IF ok THEN "wasmConfig" ELSE NULL
    /\ IF RuntimeAvailable(llamaCpp', wasmConfig')
       THEN IF ctorOk
            THEN /\ model' = "wllama"
                 /\ modelLoads' = modelLoads + 1
                 /\ inits' = [inits EXCEPT ![i] = [pc |-> "awaitModelLoad", ret |-> "pending"]]
                 /\ UNCHANGED <<isLoading, isReady, ragReady, ragLoads>>
            ELSE /\ model' = NULL
                 /\ UNCHANGED modelLoads
                 /\ RagStage(i)
       ELSE /\ UNCHANGED <<model, modelLoads>>
            /\ RagStage(i)
    /\ initFailure' = (initFailure \/ ~ok \/ ~ctorOk)
    /\ UNCHANGED <<aiVars, uiVars, ragVars>>
    /\ UNCHANGED <<ragIsLoaded, responseCache, calls, imports,
                   modelAnswered, firstInserted, insertCount>>

\* loadModel after loadModelFromUrl settles, then initializeRAG
ModelLoadDone(i, ok) ==
    /\ inits[i].pc = "awaitModelLoad"
    /\ model' = ModelAfterLoad(ok, model)
    /\ RagStage(i)
    /\ initFailure' = (initFailure \/ ~ok)
    /\ UNCHANGED <<aiVars, uiVars, ragVars>>
    /\ UNCHANGED <<llamaCpp, wasmConfig, ragIsLoaded, responseCache, calls,
                   imports, modelLoads, modelAnswered, firstInserted, insertCount>>

\* initializeRAG without its try/catch: a failed index load reaches the
\* catch block of initialize, which returns false and leaves isReady unset
ReadyAfterRag_Propagates(ok) == ok

\* initializeRAG catches a failed index load, so initialize() goes on to
\* this.isReady = true whatever the outcome was
ReadyAfterRag(ok) == TRUE

\* LocalRAG.initialize after the index fetch settles, then the tail of
\* SmolLMBrain.initialize
RagIndexDone(i, ok) ==
    /\ inits[i].pc = "awaitRagIndex"
    /\ ragIsLoaded' = (ragIsLoaded \/ ok)
    /\ ragReady' = ok
    /\ isReady' = ReadyAfterRag(ok)
    /\ isLoading' = FALSE
    /\ inits' = [inits EXCEPT ![i] = [pc |-> "returned", ret |-> BoolStr(ReadyAfterRag(ok))]]
    /\ UNCHANGED <<aiVars, uiVars, ragVars>>
    /\ UNCHANGED <<llamaCpp, wasmConfig, model, responseCache, calls,
                   imports, modelLoads, ragLoads, historyVars>>

\* getStatus(): the status field of the object it returns
getStatus ==
    IF isLoading THEN "loading"
    ELSE IF isReady THEN "ready"
    ELSE "offline"

(***************************************************************************)
(* SmolLMBrain.generateResponse                                            *)
(***************************************************************************)
SentinelResult == [success |-> FALSE, message |-> STILL_LOADING, source |-> "undefined"]

CacheResult(text) == [success |-> TRUE, message |-> text, source |-> "cache"]

\* a model answer returned under the label of the rules
ModelResult_LabelledRules(text) == [success |-> TRUE, message |-> text, source |-> "enhanced-rules"]

ModelResult(text) == [success |-> TRUE, message |-> text, source |-> "smollm2-local"]

RulesResult(userMessage) ==
    [success |-> TRUE, message |-> Guidance[userMessage], source |-> "enhanced-rules"]

\* an exception leaving generateResponse (the promise rejects)
ThrownResult == [success |-> FALSE, message |-> "", source |-> "exception"]

\* the inference block without its try/catch
InferenceFailed_Uncaught(userMessage) == ThrownResult

\* a catch block that answers with the default text
InferenceFailed_DefaultAnswer(userMessage) ==
    [success |-> TRUE, message |-> DefaultAnswer, source |-> "enhanced-rules"]

\* catch (error) { console.warn(...) } followed by the rule-based return
InferenceFailed(userMessage) == RulesResult(userMessage)

\* generateResponse without the readiness test
NotReadyGuard_Skipped == FALSE

\* if (!this.isReady) return the sentinel
NotReadyGuard == ~isReady

\* the inference block entered without the test of the handles
InferenceAvailable_Unchecked == TRUE

\* if (this.model && this.llamaCpp)
InferenceAvailable == model # NULL /\ llamaCpp # NULL

\* the prompt handed to createCompletion is built from the context block and
\* the raw message; formatContextForPrompt gives '' for an empty match list
formatContextForPrompt(outcome) == IF outcome = "matches" THEN RAG_CONTEXT ELSE ""

\* generateResponse(userMessage): from the call to its first suspension, or
\* to its return when it does not suspend
EnterGenerateResponse(c, userMessage) ==
    /\ calls[c].pc = "idle"
    /\ LET entered == [IdleCall EXCEPT !.msg = userMessage, !.readyAtEntry = isReady]
           cacheKey == NormalizedKey[userMessage]
           cachedResponse == CacheLookup(responseCache, userMessage)
       IN  IF NotReadyGuard
           THEN calls' = [calls EXCEPT ![c] = [entered EXCEPT !.result = SentinelResult]]
           ELSE IF cachedResponse # ""
           THEN calls' = [calls EXCEPT ![c] =
                    [entered EXCEPT !.key = cacheKey, !.result = CacheResult(cachedResponse)]]
           ELSE IF InferenceAvailable
           THEN IF ragReady
                THEN calls' = [calls EXCEPT ![c] =
                         [entered EXCEPT !.key = cacheKey, !.pc = "awaitSearch", !.retrievals = 1]]
                ELSE calls' = [calls EXCEPT ![c] =
                         [entered EXCEPT !.key = cacheKey, !.pc = "awaitCompletion", !.inferences = 1]]
           ELSE calls' = [calls EXCEPT ![c] =
                    [entered EXCEPT !.key = cacheKey, !.result = RulesResult(userMessage)]]

generateResponse(c, userMessage) ==
    /\ EnterGenerateResponse(c, userMessage)
    /\ UNCHANGED <<aiVars, uiVars, ragVars>>
    /\ UNCHANGED <<brainVars, responseCache, inits, loadCounters, historyVars>>

\* generateResponse after rag.searchRelevantKnowledge settles: the context
\* block is formatted and createCompletion is called; a rejection is caught
AfterSearch(c, outcome) ==
    /\ calls[c].pc = "awaitSearch"
    /\ IF outcome = "throws"
       THEN calls' = [calls EXCEPT ![c] =
                [@ EXCEPT !.pc = "idle", !.result = InferenceFailed(calls[c].msg)]]
       ELSE calls' = [calls EXCEPT ![c] =
                [@ EXCEPT !.pc = "awaitCompletion",
                          !.ragContext = formatContextForPrompt(outcome),
                          !.inferences = 1]]

SearchDone(c, outcome) ==
    /\ AfterSearch(c, outcome)
    /\ UNCHANGED <<aiVars, uiVars, ragVars>>
    /\ UNCHANGED <<brainVars, responseCache, inits, loadCounters, historyVars>>

\* generateResponse after createCompletion settles: cleanResponse, the
\* acceptance test, cacheResponse, and the rule-based answer otherwise
AfterCompletion(c, o) ==
    /\ calls[c].pc = "awaitCompletion"
    /\ LET cr == calls[c]
           \* a rejection, or text.replace on a value that is not a string
           threw == o.kind # "text"
           text == IF threw THEN "" ELSE Cleaned[o.text]
       IN  IF threw
           THEN /\ calls' = [calls EXCEPT ![c] =
                       [@ EXCEPT !.pc = "idle", !.output = o, !.result = InferenceFailed(cr.msg)]]
                /\ UNCHANGED <<responseCache, historyVars>>
           ELSE IF Accepted[o.text]
           THEN /\ responseCache' = cacheResponse(responseCache, cr.key, text)
                /\ calls' = [calls EXCEPT ![c] =
                       [@ EXCEPT !.pc = "idle", !.output = o, !.result = ModelResult(text)]]
                /\ modelAnswered' =
                       { p \in modelAnswered :
                           p.key \in CacheKeys(responseCache') /\ p.key # cr.key }
                           \cup { [key |-> cr.key, text |-> text, msg |-> cr.msg] }
                /\ firstInserted' = IF insertCount = 0 THEN cr.key ELSE firstInserted
                /\ insertCount' = IF insertCount < maxCacheSize + 2
                                  THEN insertCount + 1 ELSE insertCount
                /\ UNCHANGED initFailure
           ELSE /\ calls' = [calls EXCEPT ![c] =
                       [@ EXCEPT !.pc = "idle", !.output = o, !.result = RulesResult(cr.msg)]]
                /\ UNCHANGED <<responseCache, historyVars>>

CompletionDone(c, o) ==
    /\ AfterCompletion(c, o)
    /\ UNCHANGED <<aiVars, uiVars, ragVars>>
    /\ UNCHANGED <<brainVars, inits, loadCounters>>

(***************************************************************************)
(* AIBrain (ai-brain.js): the Transformers.js variant of the adapter       *)
(***************************************************************************)
\* String.prototype.indexOf, as a 1-based position, 0 when sub is absent
indexOf(s, sub) ==
    LET hits == { i \in 1..(Len(s) - Len(sub) + 1) : SubSeq(s, i, i + Len(sub) - 1) = sub }
    IN  IF hits = {} THEN 0 ELSE CHOOSE i \in hits : \A j \in hits : i <= j

\* String.prototype.lastIndexOf, as a 1-based position, 0 when sub is absent
lastIndexOf(s, sub) ==
    LET hits == { i \in 1..(Len(s) - Len(sub) + 1) : SubSeq(s, i, i + Len(sub) - 1) = sub }
    IN  IF hits = {} THEN 0 ELSE CHOOSE i \in hits : \A j \in hits : i >= j

\* String.prototype.endsWith
endsWith(s, sub) == Len(s) >= Len(sub) /\ SubSeq(s, Len(s) - Len(sub) + 1, Len(s)) = sub

\* s.replace(lit, ''): the first occurrence of a string literal is removed
ReplaceFirst(s, lit) ==
    LET at == indexOf(s, lit)
    IN  IF at = 0 THEN s ELSE SubSeq(s, 1, at - 1) \o SubSeq(s, at + Len(lit), Len(s))

Max(a, b) == IF a >= b THEN a ELSE b

createQuickBooksPrompt(userMessage) ==
    "QuickBooks Online Support Chat\n\nUser: " \o userMessage \o "\nAssistant: "

stopTokens == << "\nUser:", "\nAssistant:", "User:", "###", "\n\n" >>

\* the loop over stopTokens, from token k on
RECURSIVE CutAtStopTokens(_, _)
CutAtStopTokens(response, k) ==
    IF k > Len(stopTokens) THEN response
    ELSE LET index == indexOf(response, stopTokens[k])
         IN  CutAtStopTokens(IF index # 0 THEN SubSeq(response, 1, index - 1) ELSE response, k + 1)

\* AIBrain.cleanResponse; lastPunctuation > response.length * 0.6 compares a
\* 0-based index, written here on integers
AIBrain_cleanResponse(response, prompt) ==
    LET cut == trim(CutAtStopTokens(trim(ReplaceFirst(response, prompt)), 1))
        lastPunctuation ==
            Max(lastIndexOf(cut, "."), Max(lastIndexOf(cut, "!"), lastIndexOf(cut, "?"))) - 1
    IN  IF endsWith(cut, ".") \/ endsWith(cut, "!") \/ endsWith(cut, "?") THEN cut
        ELSE IF 10 * lastPunctuation > 6 * Len(cut) THEN SubSeq(cut, 1, lastPunctuation + 1)
        ELSE cut

genericPhrases == << "I can help", "I understand", "Thank you", "undefined", "null", "error" >>

AIBrain_isGenericResponse(response) ==
    /\ \E i \in 1..Len(genericPhrases) :
          includes(toLowerCase(response), toLowerCase(genericPhrases[i]))
    /\ Len(response) < 30

\* the canned answers of getRuleBasedResponse (the opening words of each)
AiBankingAnswer == "To connect your bank:"

AiInvoiceAnswer == "Create invoices:"

AiExpenseAnswer == "Record expenses:"

AiPayrollAnswer == "Set up payroll:"

AiReportsAnswer == "View financial reports:"

AiTaxAnswer == "Tax preparation:"

AiInventoryAnswer == "Manage inventory:"

AiSetupAnswer == "Getting started:"

AiTroubleshootingAnswer == "Common fixes:"

AiMobileAnswer == "QuickBooks Mobile:"

AiDefaultAnswer == "I'm here to help with QuickBooks Online! I can assist with:"

getRuleBasedResponse(userMessage) ==
    LET message == toLowerCase(userMessage)
    IN  IF includes(message, "bank") \/ includes(message, "connect") \/ includes(message, "link")
        THEN AiBankingAnswer
        ELSE IF includes(message, "invoice") \/ includes(message, "bill") \/ includes(message, "customer")
        THEN AiInvoiceAnswer
        ELSE IF includes(message, "expense") \/ includes(message, "receipt") \/ includes(message, "cost")
        THEN AiExpenseAnswer
        ELSE IF includes(message, "payroll") \/ includes(message, "employee") \/ includes(message, "salary") \/ includes(message, "wage")
        THEN AiPayrollAnswer
        ELSE IF includes(message, "report") \/ includes(message, "profit") \/ includes(message, "loss") \/ includes(message, "balance")
        THEN AiReportsAnswer
        ELSE IF includes(message, "tax") \/ includes(message, "1099") \/ includes(message, "w2") \/ includes(message, "irs")
        THEN AiTaxAnswer
        ELSE IF includes(message, "inventory") \/ includes(message, "stock") \/ includes(message, "product")
        THEN AiInventoryAnswer
        ELSE IF includes(message, "setup") \/ includes(message, "start") \/ includes(message, "begin")
        THEN AiSetupAnswer
        ELSE IF includes(message, "error") \/ includes(message, "problem") \/ includes(message, "issue") \/ includes(message, "not working")
        THEN AiTroubleshootingAnswer
        ELSE IF includes(message, "mobile") \/ includes(message, "app") \/ includes(message, "phone")
        THEN AiMobileAnswer
        ELSE AiDefaultAnswer

AI_STILL_LOADING == "AI model is still loading. Please wait..."

\* what the generator appends to the prompt it was given
Continuations ==
    { "Go to Banking and connect the account. Then cl",
      "Sure.",
      "I can help you.\nUser: thanks",
      "Open the Sales menu, then pick Invoices\n\nUser: ok" }

\* what awaiting this.generator can produce: a list whose first element
\* carries the prompt followed by the continuation, a value without such an
\* element, or a rejection
GeneratorOutcomes ==
    { [kind |-> "text", text |-> t] : t \in Continuations }
        \cup { [kind |-> "nonText", text |-> ""], [kind |-> "throws", text |-> ""] }

RuleBased == [m \in Messages |-> getRuleBasedResponse(m)]

\* the text generateResponse answers with when the generator gave prompt + t
AiAnswer ==
    [m \in Messages |-> [t \in Continuations |->
        LET prompt == createQuickBooksPrompt(m)
            response == AIBrain_cleanResponse(prompt \o t, prompt)
        IN  IF Len(response) < 15 \/ AIBrain_isGenericResponse(response)
            THEN RuleBased[m]
            ELSE response]]

\* the guard that lets a ready adapter load again
AIBrain_InitializeGuard_LoadingOnly == aiBrain.isLoading

\* if (this.isLoading || this.isReady) return;
AIBrain_InitializeGuard == aiBrain.isLoading \/ aiBrain.isReady

\* AIBrain.initialize(): from the call to the import of Transformers.js
AIBrain_initialize(i) ==
    /\ aiInits[i].pc = "notCalled"
    /\ \A j \in InitIds : j < i => aiInits[j].pc # "notCalled"
    /\ IF AIBrain_InitializeGuard
       THEN /\ aiInits' = [aiInits EXCEPT ![i] = [pc |-> "returned", ret |-> "undefined"]]
            /\ UNCHANGED aiBrain
       ELSE /\ aiBrain' = [aiBrain EXCEPT !.isLoading = TRUE]
            /\ aiInits' = [aiInits EXCEPT ![i] = [pc |-> "awaitImport", ret |-> "pending"]]
    /\ UNCHANGED <<pipelineVars, aiCalls, uiVars, ragVars>>

\* the catch block of AIBrain.initialize
AIBrain_LoadFailed(i) ==
    /\ aiBrain' = [aiBrain EXCEPT !.isLoading = FALSE]
    /\ aiInits' = [aiInits EXCEPT ![i] = [pc |-> "returned", ret |-> "false"]]

\* after the import settles: pipeline('text-generation', ...) is called
AIBrain_ImportDone(i, ok) ==
    /\ aiInits[i].pc = "awaitImport"
    /\ IF ok
       THEN /\ aiInits' = [aiInits EXCEPT ![i] = [pc |-> "awaitPipeline", ret |-> "pending"]]
            /\ UNCHANGED aiBrain
       ELSE AIBrain_LoadFailed(i)
    /\ UNCHANGED <<pipelineVars, aiCalls, uiVars, ragVars>>

\* after pipeline(...) settles
AIBrain_PipelineDone(i, ok) ==
    /\ aiInits[i].pc = "awaitPipeline"
    /\ IF ok
       THEN /\ aiBrain' = [isLoading |-> FALSE, isReady |-> TRUE, generator |-> "pipeline"]
            /\ aiInits' = [aiInits EXCEPT ![i] = [pc |-> "returned", ret |-> "true"]]
       ELSE AIBrain_LoadFailed(i)
    /\ UNCHANGED <<pipelineVars, aiCalls, uiVars, ragVars>>

\* the last load has failed: initialize() returned false and the adapter is
\* neither loading nor ready
AiLoadFailed ==
    /\ ~aiBrain.isLoading /\ ~aiBrain.isReady
    /\ \E i \in InitIds : aiInits[i].ret = "false"

AiSentinelResult == [success |-> FALSE, message |-> AI_STILL_LOADING, source |-> "undefined"]

\* AIBrain.generateResponse: from the call to the await of the generator,
\* or to the return of the "still loading" object
AIBrain_generateResponse(c, userMessage) ==
    /\ aiCalls[c].pc = "idle"
    /\ LET entered == [AiIdleCall EXCEPT !.msg = userMessage,
                                         !.failedAtEntry = AiLoadFailed]
       IN  IF ~aiBrain.isReady
           THEN aiCalls' = [aiCalls EXCEPT ![c] = [entered EXCEPT !.result = AiSentinelResult]]
           ELSE aiCalls' = [aiCalls EXCEPT ![c] = [entered EXCEPT !.pc = "awaitGenerator"]]
    /\ UNCHANGED <<pipelineVars, aiBrain, aiInits, uiVars, ragVars>>

\* after the generator settles: the cleaned text or the rule-based answer
\* with source 'ai', the rule-based answer with source 'fallback' when the
\* generator rejected or result[0].generated_text could not be read
AIBrain_GeneratorDone(c, o) ==
    /\ aiCalls[c].pc = "awaitGenerator"
    /\ aiCalls' = [aiCalls EXCEPT ![c] =
           [@ EXCEPT !.pc = "idle", !.output = o,
                     !.result = IF o.kind = "text"
                                THEN [success |-> TRUE, message |-> AiAnswer[aiCalls[c].msg][o.text], source |-> "ai"]
                                ELSE [success |-> TRUE, message |-> RuleBased[aiCalls[c].msg], source |-> "fallback"]]]
    /\ UNCHANGED <<pipelineVars, aiBrain, aiInits, uiVars, ragVars>>

(***************************************************************************)
(* The pipeline driven by a caller that keeps at most one generateResponse *)
(* in flight (app.js sendMessage returns while isLoading) and may call     *)
(* initialize() at any time.                                               *)
(***************************************************************************)
\* the one activation slot the serialized caller uses
Caller == CHOOSE c \in Calls : \A d \in Calls : c <= d

Next ==
    \/ \E i \in InitIds : initialize(i)
    \/ \E i \in InitIds, ok \in BOOLEAN, ctorOk \in BOOLEAN : ImportDone(i, ok, ctorOk)
    \/ \E i \in InitIds, ok \in BOOLEAN : ModelLoadDone(i, ok)
    \/ \E i \in InitIds, ok \in BOOLEAN : RagIndexDone(i, ok)
    \/ \E m \in Messages : generateResponse(Caller, m)
    \/ \E outcome \in SearchOutcomes : SearchDone(Caller, outcome)
    \/ \E o \in CompletionOutcomes : CompletionDone(Caller, o)

Spec == Init /\ [][Next]_vars

(***************************************************************************)
(* generateResponse called again while earlier calls are suspended         *)
(***************************************************************************)
\* three messages with three different cache keys
OverlapMessages ==
    { "How do I set up payroll?", "customer bank stock issue", "sync is not working" }

\* an output that passes the acceptance test and one that does not
OverlapOutcomes ==
    { [kind |-> "text", text |-> "Open Sales menu."],
      [kind |-> "text", text |-> "Open Sales menu"] }

\* a search that finds matches and one that is rejected
OverlapSearches == { "matches", "throws" }

\* the page calls initialize() once
FirstInit == CHOOSE i \in InitIds : \A j \in InitIds : i <= j

\* Any activation may start while the others wait for the search or for
\* createCompletion, and the awaited promises settle in any order.
NextOverlap ==
    \/ initialize(FirstInit)
    \/ \E ok \in BOOLEAN, ctorOk \in BOOLEAN : ImportDone(FirstInit, ok, ctorOk)
    \/ \E ok \in BOOLEAN : ModelLoadDone(FirstInit, ok)
    \/ \E ok \in BOOLEAN : RagIndexDone(FirstInit, ok)
    \/ \E c \in Calls, m \in OverlapMessages : generateResponse(c, m)
    \/ \E c \in Calls, outcome \in OverlapSearches : SearchDone(c, outcome)
    \/ \E c \in Calls, o \in OverlapOutcomes : CompletionDone(c, o)

SpecOverlap == Init /\ [][NextOverlap]_vars

(***************************************************************************)
(* LocalRAG: keyword extraction, relevance scores and the search           *)
(***************************************************************************)
\* s.replace(/[^\w\s]/g, ' '), on the characters lo..hi
RECURSIVE BlankRange(_, _, _)
BlankRange(s, lo, hi) ==
    IF lo > hi THEN ""
    ELSE IF lo = hi
         THEN (IF IsWordChar(CharAt(s, lo)) \/ IsSpaceChar(CharAt(s, lo)) THEN CharAt(s, lo) ELSE " ")
    ELSE LET mid == (lo + hi) \div 2
         IN  BlankRange(s, lo, mid) \o BlankRange(s, mid + 1, hi)

\* s.split(/\s+/) without the empty pieces at the ends (the length filter of
\* extractKeywords drops them): the maximal runs without white space, from
\* index i on
RECURSIVE SplitWords(_, _)
SplitWords(s, i) ==
    LET a == FirstSpaceIs(s, i, FALSE)
    IN  IF a > Len(s) THEN <<>>
        ELSE LET b == FirstSpaceIs(s, a, TRUE)
             IN  << SubSeq(s, a, b - 1) >> \o SplitWords(s, b)

commonPhrases ==
    << "bank connection", "direct deposit", "profit loss", "balance sheet",
       "cash flow", "pay invoice", "online banking", "credit card",
       "tax calculation", "inventory tracking", "stock levels" >>

extractPhrases(message) == SelectSeq(commonPhrases, LAMBDA phrase : includes(message, phrase))

extractKeywords(message) ==
    LET low == toLowerCase(message)
        words == SelectSeq(SplitWords(BlankRange(low, 1, Len(low)), 1), LAMBDA word : Len(word) > 2)
    IN  words \o extractPhrases(low)

Min3(a, b, c) == IF a <= b /\ a <= c THEN a ELSE IF b <= c THEN b ELSE c

\* a substitution that costs as much as a deletion and an insertion
SubstitutionCost_Two(x, y) == IF x = y THEN 0 ELSE 2

\* const cost = a[i - 1] === b[j - 1] ? 0 : 1
SubstitutionCost(x, y) == IF x = y THEN 0 ELSE 1

\* one row of the matrix of calculateLevenshteinDistance: row j from row
\* j - 1 (prev), filled from column i on; cur holds columns 0..i-1
RECURSIVE FillRow(_, _, _, _, _)
FillRow(a, b, j, prev, cur) ==
    LET i == Len(cur)
    IN  IF i > Len(a) THEN cur
        ELSE LET cost == SubstitutionCost(CharAt(a, i), CharAt(b, j))
             IN  FillRow(a, b, j, prev,
                         Append(cur, Min3(prev[i + 1] + 1, cur[i] + 1, prev[i] + cost)))

RECURSIVE LevenshteinRow(_, _, _)
LevenshteinRow(a, b, j) ==
    IF j = 0 THEN [i \in 1..(Len(a) + 1) |-> i - 1]
    ELSE FillRow(a, b, j, LevenshteinRow(a, b, j - 1), << j >>)

calculateLevenshteinDistance(a, b) == LevenshteinRow(a, b, Len(b))[Len(a) + 1]

isKeywordMatch(userKeyword, triggerKeyword) ==
    \/ userKeyword = triggerKeyword
    \/ includes(userKeyword, triggerKeyword) \/ includes(triggerKeyword, userKeyword)
    \/ /\ calculateLevenshteinDistance(userKeyword, triggerKeyword) <= 1
       /\ Len(userKeyword) >= 4 /\ Len(triggerKeyword) >= 4

\* the inner loop of calculateRelevanceScore for one trigger, from user
\* keyword u on: what it adds to matches (matches++ and break at the first
\* user keyword that matches)
RECURSIVE TriggerMatches(_, _, _)
TriggerMatches(userKeywords, trigger, u) ==
    IF u > Len(userKeywords) THEN 0
    ELSE IF isKeywordMatch(userKeywords[u], trigger) THEN 1
    ELSE TriggerMatches(userKeywords, trigger, u + 1)

\* the outer loop of calculateRelevanceScore: matches after all triggers
RECURSIVE CountMatches(_, _)
CountMatches(userKeywords, triggerKeywords) ==
    IF triggerKeywords = <<>> THEN 0
    ELSE TriggerMatches(userKeywords, Head(triggerKeywords), 1)
            + CountMatches(userKeywords, Tail(triggerKeywords))

\* a score that counts every pair of a trigger and a user keyword matching it
calculateRelevanceScore_NoBreak(userKeywords, triggerKeywords) ==
    [matches |-> Cardinality({ pair \in (1..Len(triggerKeywords)) \X (1..Len(userKeywords)) :
                                 isKeywordMatch(userKeywords[pair[2]], triggerKeywords[pair[1]]) }),
     total |-> Len(triggerKeywords)]

\* calculateRelevanceScore: matches / totalTriggers, kept as the two
\* integers; 0 / 0, the quotient for an empty trigger list, is NaN
calculateRelevanceScore(userKeywords, triggerKeywords) ==
    [matches |-> CountMatches(userKeywords, triggerKeywords),
     total |-> Len(triggerKeywords)]

\* Number.isNaN of a score
IsNaN(score) == score.total = 0 /\ score.matches = 0

\* score > 0.3 (0 / 0 is NaN, which is not greater)
AboveThreshold(score) == score.total > 0 /\ 10 * score.matches > 3 * score.total

\* a.score > b.score on quotients with positive denominators
ScoreGreater(a, b) == a.matches * b.total > b.matches * a.total

\* the search index file: searchIndex.keywords
searchIndexKeywords ==
    [keyword \in { "bank", "connection", "sync", "bank connection", "invoice", "customer",
                   "payroll", "employee", "payment" } |->
        CASE keyword \in { "bank", "connection", "sync", "bank connection" } -> << "banking" >>
          [] keyword \in { "invoice", "customer" } -> << "invoicing" >>
          [] keyword \in { "payroll", "employee" } -> << "payroll" >>
          [] OTHER -> << "invoicing", "payroll", "banking" >>]

Item(issue, triggers) == [issue |-> issue, trigger_keywords |-> triggers]

UdasLayers == { "user", "data" }

\* the category files: [category].udas_layers[layer]
KnowledgeFiles ==
    [category \in CategorySet |-> [layer \in UdasLayers |->
        CASE category = "banking" /\ layer = "user" ->
                << Item("Bank connection lost", << "bank", "connection" >>),
                   Item("Bank feed stopped", << "bank", "feed", "sync" >>),
                   Item("Duplicate bank transactions", << "duplicate", "transactions", "bank", "import" >>) >>
          [] category = "banking" /\ layer = "data" ->
                << Item("Reconcile mismatch", << "reconcile", "bank" >>) >>
          [] category = "invoicing" /\ layer = "user" ->
                << Item("Invoice payment not recorded", << "invoice", "payment" >>),
                   Item("Customer cannot pay invoice", << "customer", "invoice", "payment" >>),
                   Item("Invoice emails not sent", << "invoice", "email", "template", "smtp" >>) >>
          [] category = "payroll" /\ layer = "user" ->
                << Item("Payroll payment failed", << "payroll", "payment" >>),
                   Item("Direct deposit missing", << "employee", "payroll", "deposit" >>),
                   Item("Untitled entry", << >>) >>
          [] OTHER -> << >>]]

\* the messages searched for
SearchMessages ==
    { "My bank payment for the invoice did not sync",
      "payroll payment failed",
      "bank conection lost",
      "bank constructor error",
      "hi" }

\* the entries of categoryScores in the order of this.categories, after the
\* keywords have been counted
RECURSIVE CategoryScore(_, _)
CategoryScore(keywords, category) ==
    IF keywords = <<>> THEN 0
    ELSE LET keyword == keywords[Len(keywords)]
             listed == IF keyword \in DOMAIN searchIndexKeywords
                       THEN searchIndexKeywords[keyword] ELSE <<>>
         IN  CategoryScore(SubSeq(keywords, 1, Len(keywords) - 1), category)
                + Len(SelectSeq(listed, LAMBDA c : c = category))

\* the names searchIndex.keywords, an object parsed from JSON, inherits from
\* Object.prototype that a keyword (lower case, word characters) can spell:
\* searchIndex.keywords[keyword] is then the inherited value, which is
\* truthy and not iterable
ObjectPrototypeKeys == { "constructor", "__proto__" }

\* for (const category of this.searchIndex.keywords[keyword]) throws a
\* TypeError for such a keyword, unless the index file has it as a keyword
ThrowsOnKeyword(keywords) ==
    \E u \in 1..Len(keywords) :
        keywords[u] \in ObjectPrototypeKeys \ DOMAIN searchIndexKeywords

\* a comparator that puts the smaller score first
ScoreBefore_Ascending(a, b) == ScoreGreater(b.score, a.score)

\* the comparator (a, b) => b.score - a.score is negative: a goes first
ScoreBefore(a, b) == ScoreGreater(a.score, b.score)

\* Array.prototype.sort (stable) with that comparator: e, which came after
\* the elements of sorted, is put before the first one it must precede
RECURSIVE InsertSorted(_, _)
InsertSorted(sorted, e) ==
    IF sorted = <<>> THEN << e >>
    ELSE IF ScoreBefore(e, Head(sorted)) THEN << e >> \o sorted
    ELSE << Head(sorted) >> \o InsertSorted(Tail(sorted), e)

RECURSIVE SortByScore(_)
SortByScore(seq) ==
    IF seq = <<>> THEN <<>>
    ELSE InsertSorted(SortByScore(SubSeq(seq, 1, Len(seq) - 1)), seq[Len(seq)])

\* Array.prototype.slice(0, n)
slice0(seq, n) == IF Len(seq) <= n THEN seq ELSE SubSeq(seq, 1, n)

\* identifyRelevantCategories: the categories with a positive score, by
\* score, the first two
identifyRelevantCategories(keywords) ==
    LET entries == [x \in 1..Len(categories) |->
                       [category |-> categories[x],
                        score |-> [matches |-> CategoryScore(keywords, categories[x]), total |-> 1]]]
        sorted == SortByScore(SelectSeq(entries, LAMBDA e : e.score.matches > 0))
    IN  IF ThrowsOnKeyword(keywords)
        THEN [threw |-> TRUE, value |-> <<>>]
        ELSE [threw |-> FALSE, value |-> slice0([x \in 1..Len(sorted) |-> sorted[x].category], 2)]

\* the body of the loop of searchRelevantKnowledge for one loaded category:
\* the entries of the layer that pass the threshold, as they are pushed
CategoryMatchesOf(keywords, category, layer) ==
    LET layerData == KnowledgeFiles[category][layer]
        scored == [x \in 1..Len(layerData) |->
                      [issue |-> layerData[x].issue,
                       score |-> calculateRelevanceScore(keywords, layerData[x].trigger_keywords),
                       category |-> category,
                       layer |-> layer]]
    IN  SelectSeq(scored, LAMBDA e : AboveThreshold(e.score))

SearchKeywords == [m \in SearchMessages |-> extractKeywords(m)]

RelevantCategories == [m \in SearchMessages |-> identifyRelevantCategories(SearchKeywords[m])]

CategoryMatches ==
    [m \in SearchMessages |-> [layer \in UdasLayers |-> [category \in CategorySet |->
        CategoryMatchesOf(SearchKeywords[m], category, layer)]]]


\* the cache of loadKnowledgeCategory that keeps a failed load as data
MemoAfterLoad_KeepsFailure(old, ok) == Loaded

\* loadKnowledgeCategory after its fetch settles: the parsed file is stored
\* on success; the catch block stores nothing
MemoAfterLoad(old, ok) == IF ok THEN Loaded ELSE old

\* the loop of searchRelevantKnowledge from category k on, run up to the
\* next category that has to be fetched; a category held in this.knowledge
\* is read without a fetch.  When the loop ends the matches are sorted and
\* the first three returned.
RECURSIVE Advance(_, _)
Advance(sr, k) ==
    IF k > Len(sr.cats)
    THEN [sr EXCEPT !.pc = "done", !.k = 0, !.result = slice0(SortByScore(sr.matches), 3)]
    ELSE IF knowledge[sr.cats[k]] = Loaded
    THEN Advance([sr EXCEPT !.matches = @ \o CategoryMatches[sr.msg][sr.layer][sr.cats[k]]], k + 1)
    ELSE [sr EXCEPT !.pc = "awaitCategory", !.k = k]

\* searchRelevantKnowledge once this.isLoaded has been tested and
\* initialize() awaited: with a search index the keywords pick the
\* categories; without one (the index fetch failed, searchIndex is {})
\* reading searchIndex.keywords[keyword] throws for the first keyword
AfterIndex(sr, indexLoaded) ==
    IF indexLoaded
    THEN (IF RelevantCategories[sr.msg].threw
          THEN [sr EXCEPT !.pc = "done", !.threw = TRUE]
          ELSE Advance([sr EXCEPT !.cats = RelevantCategories[sr.msg].value], 1))
    ELSE IF SearchKeywords[sr.msg] = <<>>
    THEN [sr EXCEPT !.pc = "done"]
    ELSE [sr EXCEPT !.pc = "done", !.threw = TRUE]

\* searchRelevantKnowledge(userMessage, currentUdasLayer): from the call to
\* its first fetch
searchRelevantKnowledge(userMessage, currentUdasLayer) ==
    /\ search.pc \in {"idle", "done"}
    /\ LET sr == [IdleSearch EXCEPT !.msg = userMessage, !.layer = currentUdasLayer]
       IN  search' = IF ragIsLoaded THEN AfterIndex(sr, TRUE) ELSE [sr EXCEPT !.pc = "awaitIndex"]
    /\ UNCHANGED <<pipelineVars, aiVars, uiVars, knowledge, probe>>

\* LocalRAG.initialize after the index fetch it started settles
IndexFetched(ok) ==
    /\ search.pc = "awaitIndex"
    /\ ragIsLoaded' = (ragIsLoaded \/ ok)
    /\ search' = AfterIndex(search, ok)
    /\ UNCHANGED <<isLoading, isReady, llamaCpp, wasmConfig, model, ragReady, responseCache,
                   inits, calls, loadCounters, historyVars, aiVars, uiVars, knowledge, probe>>

\* loadKnowledgeCategory after its fetch settles, and the loop up to the
\* next fetch or to the return
CategoryFetched(ok) ==
    /\ search.pc = "awaitCategory"
    /\ LET category == search.cats[search.k]
           sr == IF ok
                 THEN [search EXCEPT !.matches = @ \o CategoryMatches[search.msg][search.layer][category],
                                     !.loadedNow = @ \cup {category}]
                 ELSE [search EXCEPT !.failed = @ \cup {category}]
       IN  /\ knowledge' = [knowledge EXCEPT ![category] = MemoAfterLoad(@, ok)]
           /\ search' = Advance(sr, search.k + 1)
    /\ UNCHANGED <<pipelineVars, aiVars, uiVars, probe>>

NextRAG ==
    \/ \E m \in SearchMessages, layer \in UdasLayers : searchRelevantKnowledge(m, layer)
    \/ \E ok \in BOOLEAN : IndexFetched(ok)
    \/ \E ok \in BOOLEAN : CategoryFetched(ok)

SpecRAG == Init /\ [][NextRAG]_vars

(***************************************************************************)
(* LocalRAG's helpers called directly                                      *)
(***************************************************************************)
\* the search index file: searchIndex.udas_layers, in the order of the file
udas_layers ==
    << [layer |-> "system", keywords |-> << "crash", "install", "update" >>],
       [layer |-> "user", keywords |-> << "password", "login", "permission" >>],
       [layer |-> "data", keywords |-> << "duplicate", "missing", "log" >>],
       [layer |-> "algorithm", keywords |-> << "calculation", "rounding", "Tax" >>] >>

\* the inner loop of determineCurrentUdasLayer: some keyword of the layer is
\* included in the message
LayerMatches(message, info) ==
    \E k \in 1..Len(info.keywords) : includes(message, info.keywords[k])

\* the outer loop of determineCurrentUdasLayer from entry x of
\* Object.entries(layers) on, and the default after it
RECURSIVE ScanLayers(_, _)
ScanLayers(message, x) ==
    IF x > Len(udas_layers) THEN "user"
    ELSE IF LayerMatches(message, udas_layers[x]) THEN udas_layers[x].layer
    ELSE ScanLayers(message, x + 1)

\* a scan of the message as typed
determineCurrentUdasLayer_CaseSensitive(userMessage) == ScanLayers(userMessage, 1)

determineCurrentUdasLayer(userMessage) == ScanLayers(toLowerCase(userMessage), 1)

\* longest keyword list given to identifyRelevantCategories
MaxKeywords == 3

\* longest keyword lists given to calculateRelevanceScore
MaxTriggers == 2

\* longest word over the two-letter alphabet given to
\* calculateLevenshteinDistance
MaxWordLen == 3

\* the sequences over S of at most n elements
SeqsUpTo(S, n) == UNION { [1..k -> S] : k \in 0..n }

\* the words over the letters of S of at most n letters
RECURSIVE WordsUpTo(_, _)
WordsUpTo(S, n) ==
    IF n = 0 THEN { "" }
    ELSE WordsUpTo(S, n - 1) \cup { w \o c : w \in WordsUpTo(S, n - 1), c \in S }

CategoryKeywords == { "bank", "payment", "payroll", "sync", "hello", "constructor" }

MatchKeywords == { "bank", "banc", "bank fee", "pay", "pat" }

LayerMessages ==
    { "I forgot my Password",
      "duplicate entries after login",
      "Duplicate invoices appear",
      "the app will crash when I login with missing data",
      "Tax is wrong",
      "wrong tax calculation",
      "catalog of items",
      "how do I print a report",
      "" }

DistanceWords == WordsUpTo({ "a", "b" }, MaxWordLen) \cup { "bank", "banc", "bunk", "ban", "sank" }

Returns(value) == [threw |-> FALSE, value |-> value]

\* The helpers read their arguments and the search index only, so each is
\* called once, on a LocalRAG no helper has been called on.

Call_identifyRelevantCategories(keywords) ==
    /\ probe = NoProbe
    /\ probe' = [fn |-> "identifyRelevantCategories", args |-> << keywords >>,
                 out |-> identifyRelevantCategories(keywords)]
    /\ UNCHANGED <<pipelineVars, aiVars, uiVars, knowledge, search>>

Call_calculateRelevanceScore(userKeywords, triggerKeywords) ==
    /\ probe = NoProbe
    /\ probe' = [fn |-> "calculateRelevanceScore", args |-> << userKeywords, triggerKeywords >>,
                 out |-> Returns(calculateRelevanceScore(userKeywords, triggerKeywords))]
    /\ UNCHANGED <<pipelineVars, aiVars, uiVars, knowledge, search>>

Call_determineCurrentUdasLayer(userMessage) ==
    /\ probe = NoProbe
    /\ probe' = [fn |-> "determineCurrentUdasLayer", args |-> << userMessage >>,
                 out |-> Returns(determineCurrentUdasLayer(userMessage))]
    /\ UNCHANGED <<pipelineVars, aiVars, uiVars, knowledge, search>>

Call_calculateLevenshteinDistance(a, b) ==
    /\ probe = NoProbe
    /\ probe' = [fn |-> "calculateLevenshteinDistance", args |-> << a, b >>,
                 out |-> Returns(calculateLevenshteinDistance(a, b))]
    /\ UNCHANGED <<pipelineVars, aiVars, uiVars, knowledge, search>>

NextHelpers ==
    \/ \E keywords \in SeqsUpTo(CategoryKeywords, MaxKeywords) :
            Call_identifyRelevantCategories(keywords)
    \/ \E userKeywords \in SeqsUpTo(MatchKeywords, MaxTriggers),
           triggerKeywords \in SeqsUpTo(MatchKeywords, MaxTriggers) :
            Call_calculateRelevanceScore(userKeywords, triggerKeywords)
    \/ \E userMessage \in LayerMessages : Call_determineCurrentUdasLayer(userMessage)
    \/ \E a \in DistanceWords, b \in DistanceWords : Call_calculateLevenshteinDistance(a, b)

SpecHelpers == Init /\ [][NextHelpers]_vars

(***************************************************************************)
(* QuickBooksAI (app.js): the chat front end over SmolLMBrain              *)
(***************************************************************************)
AI_NOT_AVAILABLE == "AI is not currently available. Please try refreshing the page or check your internet connection."

TROUBLE_REPLY == "I apologize, but I'm having trouble right now. Please try again."

\* what the user types into the message field
UiInputs == { "How do I set up payroll?", " sync is not working ", "   " }

\* the data-message attributes of the quick-action buttons
QuickActions == { "customer bank stock issue", "How do I set up payroll?" }

Trimmed == [t \in UiInputs \cup QuickActions \cup {""} |-> trim(t)]

\* the lowest activation slot that is free
FreeCall == CHOOSE c \in Calls : calls[c].pc = "idle" /\ \A d \in Calls : calls[d].pc = "idle" => c <= d

\* the guard without the isLoading test
SendGuard_EmptyOnly(message) == message = ""

\* if (!message || this.isLoading) return;
SendGuard(message) == message = "" \/ app.isLoading

\* a sendMessage whose finally block is missing
ReplyAdded_NoFinally(ui, c) ==
    [ui EXCEPT !.reply = IF calls'[c].result.source = "exception"
                         THEN TROUBLE_REPLY ELSE calls'[c].result.message,
               !.replySource = calls'[c].result.source,
               !.owed = @ - 1,
               !.sentWhenReady = calls'[c].readyAtEntry]

\* the rest of sendMessage once callAI has settled on activation c:
\* addMessage(response, 'bot') or the error message of the catch block,
\* then setLoading(false)
ReplyAdded(ui, c) ==
    [ui EXCEPT !.isLoading = FALSE,
               !.owed = @ - 1,
               !.reply = IF calls'[c].result.source = "exception"
                         THEN TROUBLE_REPLY ELSE calls'[c].result.message,
               !.replySource = calls'[c].result.source,
               !.sentWhenReady = calls'[c].readyAtEntry]

\* sendMessage() on the object ui: the guard, setLoading(true), callAI up to
\* the first suspension of generateResponse, and the reply when callAI
\* settles without suspending
SendMessageBody(ui) ==
    LET message == Trimmed[ui.input]
    IN  IF SendGuard(message)
        THEN /\ app' = [ui EXCEPT !.lastEvent = "refused"]
             /\ UNCHANGED calls
        ELSE IF ui.aiBrain = "undefined"
        THEN /\ app' = [ui EXCEPT !.input = "", !.isLoading = FALSE,
                                  !.reply = AI_NOT_AVAILABLE, !.replySource = "unavailable",
                                  !.owed = (@ + 1) - 1,
                                  !.sentWhenReady = isReady, !.lastEvent = "accepted"]
             /\ UNCHANGED calls
        ELSE /\ \E c \in Calls : calls[c].pc = "idle"
             /\ EnterGenerateResponse(FreeCall, message)
             /\ LET sent == [ui EXCEPT !.input = "", !.isLoading = TRUE, !.owed = @ + 1,
                                       !.lastEvent = "accepted"]
                IN  app' = IF calls'[FreeCall].pc = "idle" THEN ReplyAdded(sent, FreeCall) ELSE sent

\* the send button or the Enter key: the field is disabled while a request
\* is in flight, so text can be typed only when isLoading is false
sendMessage(text) ==
    /\ SendMessageBody([app EXCEPT !.input = IF app.isLoading THEN @ ELSE text])
    /\ UNCHANGED <<brainVars, responseCache, inits, loadCounters, historyVars, aiVars, ragVars>>

\* a quick-action button: startChat(message) fills the field and sends
startChat(message) ==
    /\ SendMessageBody([app EXCEPT !.input = IF message # "" THEN message ELSE Trimmed[@]])
    /\ UNCHANGED <<brainVars, responseCache, inits, loadCounters, historyVars, aiVars, ragVars>>

\* the timer set by the constructor fires: initializeBrowserAI builds the
\* SmolLMBrain and calls its initialize()
initializeBrowserAI ==
    /\ app.aiBrain = "undefined"
    /\ app' = [app EXCEPT !.aiBrain = "SmolLMBrain"]
    /\ \E i \in InitIds : EnterInitialize(i)
    /\ UNCHANGED <<isReady, llamaCpp, wasmConfig, model, ragReady, ragIsLoaded,
                   responseCache, calls, modelLoads, ragLoads, historyVars, aiVars, ragVars>>

\* generateResponse goes on after the search; sendMessage goes on when it returns
App_SearchDone(c, outcome) ==
    /\ AfterSearch(c, outcome)
    /\ app' = IF calls'[c].pc = "idle" THEN ReplyAdded(app, c) ELSE app
    /\ UNCHANGED <<brainVars, responseCache, inits, loadCounters, historyVars, aiVars, ragVars>>

\* generateResponse returns after the completion; sendMessage adds the reply
App_CompletionDone(c, o) ==
    /\ AfterCompletion(c, o)
    /\ app' = ReplyAdded(app, c)
    /\ UNCHANGED <<brainVars, inits, loadCounters, aiVars, ragVars>>

NextApp ==
    \/ initializeBrowserAI
    \/ \E i \in InitIds, ok \in BOOLEAN, ctorOk \in BOOLEAN : ImportDone(i, ok, ctorOk)
    \/ \E i \in InitIds, ok \in BOOLEAN : ModelLoadDone(i, ok)
    \/ \E i \in InitIds, ok \in BOOLEAN : RagIndexDone(i, ok)
    \/ \E text \in UiInputs : sendMessage(text)
    \/ \E message \in QuickActions : startChat(message)
    \/ \E c \in Calls, outcome \in SearchOutcomes : App_SearchDone(c, outcome)
    \/ \E c \in Calls, o \in CompletionOutcomes : App_CompletionDone(c, o)

SpecApp == Init /\ [][NextApp]_vars

\* the same page when every promise generateResponse awaits settles: a
\* pending search and a pending completion are eventually resumed
SpecAppSettling ==
    /\ SpecApp
    /\ WF_vars(\E c \in Calls, outcome \in SearchOutcomes : App_SearchDone(c, outcome))
    /\ WF_vars(\E c \in Calls, o \in CompletionOutcomes : App_CompletionDone(c, o))

(***************************************************************************)
(* The two adapters under callers that may call initialize() at any time   *)
(***************************************************************************)
NextLifecycle ==
    \/ \E i \in InitIds : initialize(i)
    \/ \E i \in InitIds, ok \in BOOLEAN, ctorOk \in BOOLEAN : ImportDone(i, ok, ctorOk)
    \/ \E i \in InitIds, ok \in BOOLEAN : ModelLoadDone(i, ok)
    \/ \E i \in InitIds, ok \in BOOLEAN : RagIndexDone(i, ok)
    \/ \E i \in InitIds : AIBrain_initialize(i)
    \/ \E i \in InitIds, ok \in BOOLEAN : AIBrain_ImportDone(i, ok)
    \/ \E i \in InitIds, ok \in BOOLEAN : AIBrain_PipelineDone(i, ok)

SpecLifecycle == Init /\ [][NextLifecycle]_vars

(***************************************************************************)
(* AIBrain driven by a caller that keeps one generateResponse in flight    *)
(***************************************************************************)
NextAIBrain ==
    \/ \E i \in InitIds : AIBrain_initialize(i)
    \/ \E i \in InitIds, ok \in BOOLEAN : AIBrain_ImportDone(i, ok)
    \/ \E i \in InitIds, ok \in BOOLEAN : AIBrain_PipelineDone(i, ok)
    \/ \E m \in Messages : AIBrain_generateResponse(Caller, m)
    \/ \E o \in GeneratorOutcomes : AIBrain_GeneratorDone(Caller, o)

SpecAIBrain == Init /\ [][NextAIBrain]_vars

(***************************************************************************)
(* Properties                                                              *)
(***************************************************************************)
\* the activation c returned in this step, or was called in it
Returned(c) == calls[c].pc # "idle" /\ calls'[c].pc = "idle"

Entered(c) == calls[c].pc = "idle" /\ calls'[c] # calls[c]

Completed(c) == calls[c].pc = "idle" /\ calls[c].msg # ""

\* C1: once initialization has completed, every generateResponse call on a
\* non-empty message that has returned gave a successful result with a
\* non-empty text from the cache, the model or the rules, and no exception
\* left the call, whatever the model handle, the RAG state, the outcome of
\* createCompletion and the verdict of the quality gate were.
Totality ==
    \A c \in Calls :
        (Completed(c) /\ calls[c].readyAtEntry) =>
            /\ calls[c].result.success
            /\ Len(calls[c].result.message) > 0
            /\ calls[c].result.source \in {"cache", "smollm2-local", "enhanced-rules"}

\* a call whose createCompletion did not resolve with a string has returned
WitnessTotality ==
    \E c \in Calls :
        /\ Completed(c) /\ calls[c].readyAtEntry
        /\ calls[c].inferences = 1
        /\ calls[c].output.kind = "nonText"
        /\ Len(calls[c].result.message) > 0

\* C2: a call whose message normalizes to the key of a model-sourced answer
\* t returned earlier and not evicted since returns exactly t with source
\* cache, at once, with no retrieval call and no createCompletion call.
CacheDeterminism ==
    [][\A c \in Calls : \A p \in modelAnswered :
          (Entered(c) /\ NormalizedKey[calls'[c].msg] = p.key) =>
              /\ calls'[c].pc = "idle"
              /\ calls'[c].result = [success |-> TRUE, message |-> p.text, source |-> "cache"]
              /\ calls'[c].retrievals = 0
              /\ calls'[c].inferences = 0]_vars

\* a message was answered from the cache entry another message created
WitnessCacheDeterminism ==
    \E c \in Calls : \E p \in modelAnswered :
        /\ Completed(c)
        /\ calls[c].result.source = "cache"
        /\ calls[c].result.message = p.text
        /\ calls[c].key = p.key
        /\ calls[c].msg # p.msg

\* C3: responseCache never holds more than maxCacheSize entries.
CacheBound == Cardinality(CacheKeys(responseCache)) <= maxCacheSize /\ Len(responseCache) <= maxCacheSize

\* the cache is full and an insertion at capacity has happened
WitnessCacheBound == Len(responseCache) = maxCacheSize /\ insertCount > maxCacheSize

\* C4: the cache changes only by the insertion of a key that is absent; the
\* new entry goes to the end, an insertion at capacity removes exactly the
\* entry at the front (the one inserted earliest) and keeps the others in
\* order, and no other step (a cache hit in particular) reorders the
\* entries; so after maxCacheSize + 1 insertions the cache holds
\* maxCacheSize entries and the key inserted first is gone.
FifoEviction ==
    [][/\ responseCache' # responseCache =>
            /\ Len(responseCache') > 0
            /\ responseCache'[Len(responseCache')].key \notin CacheKeys(responseCache)
            /\ responseCache' =
                  (IF Len(responseCache) >= maxCacheSize THEN Tail(responseCache) ELSE responseCache)
                      \o << responseCache'[Len(responseCache')] >>
       /\ insertCount' = maxCacheSize + 1 =>
            /\ Len(responseCache') = maxCacheSize
            /\ firstInserted' \notin CacheKeys(responseCache')]_vars

\* maxCacheSize + 1 answers have been inserted and the first key is gone
WitnessFifoEviction ==
    /\ insertCount = maxCacheSize + 1
    /\ firstInserted # NoKey
    /\ firstInserted \notin CacheKeys(responseCache)
    /\ Len(responseCache) = maxCacheSize

\* C5: a call made while isReady is false returns the "still loading" text
\* with success = false and no source, at once, without a retrieval or
\* inference call, and leaves the cache and every other field unchanged.
NotReadySentinel ==
    [][\A c \in Calls :
          (Entered(c) /\ ~isReady) =>
              /\ calls'[c].pc = "idle"
              /\ calls'[c].result =
                    [success |-> FALSE, message |-> STILL_LOADING, source |-> "undefined"]
              /\ calls'[c].retrievals = 0
              /\ calls'[c].inferences = 0
              /\ UNCHANGED <<brainVars, responseCache, inits, loadCounters, historyVars>>]_vars

\* a call made while the model was loading has returned the sentinel
WitnessNotReadySentinel ==
    \E c \in Calls :
        /\ Completed(c) /\ ~calls[c].readyAtEntry
        /\ calls[c].result.message = STILL_LOADING
        /\ isLoading

\* C6: after an initialization in which the runtime import, the model
\* construction or the weight fetch failed, every call returns at once the
\* rule-based answer with the rules source and makes no inference call;
\* "How do I set up payroll?" gets the payroll instructions.
RulesOnlyDegradation ==
    (isReady /\ initFailure) =>
        \A c \in Calls :
            (calls[c].msg # "" /\ calls[c].readyAtEntry) =>
                /\ calls[c].pc = "idle"
                /\ calls[c].result.success
                /\ calls[c].result.source = "enhanced-rules"
                /\ calls[c].result.message = Guidance[calls[c].msg]
                /\ calls[c].inferences = 0
                /\ calls[c].retrievals = 0
                /\ (calls[c].msg = "How do I set up payroll?" =>
                        calls[c].result.message = PayrollAnswer)

\* the payroll question answered after a failed weight fetch
WitnessRulesOnlyDegradation ==
    /\ isReady /\ initFailure /\ llamaCpp # NULL
    /\ \E c \in Calls :
          /\ calls[c].readyAtEntry
          /\ calls[c].msg = "How do I set up payroll?"
          /\ calls[c].result.message = PayrollAnswer

\* the topic groups as a table: the keywords of each group and its answer
RuleGroup(keywords, answer) == [keywords |-> keywords, answer |-> answer]

\* the groups with the keywords the claim lists; its first group is read
\* with the keyword "bank", which occurs in every message that contains
\* "banking"
ClaimedGroups ==
    << RuleGroup(<<"bank", "connect", "link">>, BankingAnswer),
       RuleGroup(<<"invoice", "bill", "customer">>, InvoiceAnswer),
       RuleGroup(<<"expense", "receipt", "cost">>, ExpenseAnswer),
       RuleGroup(<<"payroll", "employee", "salary">>, PayrollAnswer),
       RuleGroup(<<"report", "profit", "loss", "financial">>, ReportsAnswer),
       RuleGroup(<<"tax", "1099", "deduction">>, TaxAnswer),
       RuleGroup(<<"inventory", "product", "stock">>, InventoryAnswer),
       RuleGroup(<<"error", "problem", "issue">>, TroubleshootingAnswer) >>

\* the groups of the amended claim: "not working" belongs to the last group
AmendedGroups ==
    << RuleGroup(<<"bank", "connect", "link">>, BankingAnswer),
       RuleGroup(<<"invoice", "bill", "customer">>, InvoiceAnswer),
       RuleGroup(<<"expense", "receipt", "cost">>, ExpenseAnswer),
       RuleGroup(<<"payroll", "employee", "salary">>, PayrollAnswer),
       RuleGroup(<<"report", "profit", "loss", "financial">>, ReportsAnswer),
       RuleGroup(<<"tax", "1099", "deduction">>, TaxAnswer),
       RuleGroup(<<"inventory", "product", "stock">>, InventoryAnswer),
       RuleGroup(<<"error", "problem", "not working", "issue">>, TroubleshootingAnswer) >>

\* first-match-wins over a table: the answer of the earliest group one of
\* whose keywords occurs in the lowercased message, the default otherwise
FirstMatchAnswer(groups, userMessage) ==
    LET low == toLowerCase(userMessage)
        hits == { g \in 1..Len(groups) :
                    \E k \in 1..Len(groups[g].keywords) : includes(low, groups[g].keywords[k]) }
    IN  IF hits = {} THEN DefaultAnswer
        ELSE groups[CHOOSE g \in hits : \A h \in hits : g <= h].answer

AllKeywords ==
    UNION { { AmendedGroups[g].keywords[k] : k \in 1..Len(AmendedGroups[g].keywords) } :
            g \in 1..Len(AmendedGroups) }

\* messages for the rule table: every ordered pair of keywords, some
\* capitalized wordings, and wordings without any keyword
RuleMessages ==
    { k1 \o " and " \o k2 : k1 \in AllKeywords, k2 \in AllKeywords }
        \cup { "My PAYROLL is late", "Customer BANK Stock", "It Is Not Working", "SALARY",
               "hello there", "banking", "" }
        \cup Messages

ClaimedGuidance == [m \in Messages |-> FirstMatchAnswer(ClaimedGroups, m)]

AmendedGuidance == [m \in Messages |-> FirstMatchAnswer(AmendedGroups, m)]

\* the if-chain and the amended table agree on every rule message
RuleTableAgrees ==
    \A m \in RuleMessages : getQuickBooksGuidance(m) = FirstMatchAnswer(AmendedGroups, m)

\* C7 as stated: every rule-based answer is the first-match answer over the
\* groups banking/connect/link, ..., error/problem/issue, the default when no
\* listed keyword occurs in the message.
RuleFallbackAsClaimed ==
    \A c \in Calls :
        (Completed(c) /\ calls[c].result.source = "enhanced-rules") =>
            calls[c].result.message = ClaimedGuidance[calls[c].msg]

\* C7 amended: every rule-based answer, in whatever model, cache and RAG
\* state it is produced, is the first-match answer over the groups
\* bank/connect/link, invoice/bill/customer, expense/receipt/cost,
\* payroll/employee/salary, report/profit/loss/financial,
\* tax/1099/deduction, inventory/product/stock,
\* error/problem/not working/issue, tested in this order on the lowercased
\* message, and the default answer when no keyword occurs.
RuleFallbackFirstMatch ==
    /\ RuleTableAgrees
    /\ \A c \in Calls :
          (Completed(c) /\ calls[c].result.source = "enhanced-rules") =>
              calls[c].result.message = AmendedGuidance[calls[c].msg]

\* a message of several groups whose first word belongs to a later group
\* got the banking answer, after the model's output was rejected
WitnessRuleFallbackFirstMatch ==
    \E c \in Calls :
        /\ Completed(c)
        /\ calls[c].msg = "customer bank stock issue"
        /\ calls[c].inferences = 1
        /\ calls[c].result.source = "enhanced-rules"
        /\ calls[c].result.message = BankingAnswer

\* C8: when createCompletion rejects or resolves with a value that is not a
\* string, the call returns the rule-based answer for its message with the
\* rules source (no exception leaves it) and the cache is unchanged.
InferenceFailureFallsBack ==
    [][\A c \in Calls :
          (Returned(c) /\ calls'[c].output.kind \in {"throws", "nonText"}) =>
              /\ calls'[c].result =
                    [success |-> TRUE, message |-> Guidance[calls[c].msg], source |-> "enhanced-rules"]
              /\ responseCache' = responseCache]_vars

\* createCompletion rejected while the cache held an entry
WitnessInferenceFailureFallsBack ==
    \E c \in Calls :
        /\ Completed(c)
        /\ calls[c].output.kind = "throws"
        /\ calls[c].result.source = "enhanced-rules"
        /\ Len(responseCache) > 0

\* C9: a cleaned model output of fewer than 16 characters is never returned
\* and never cached: the call returns the rule-based answer with the rules
\* source and the cache is unchanged.
ShortOutputRejected ==
    [][\A c \in Calls :
          (/\ Returned(c)
           /\ calls'[c].output.kind = "text"
           /\ Len(Cleaned[calls'[c].output.text]) < 16) =>
              /\ calls'[c].result =
                    [success |-> TRUE, message |-> Guidance[calls[c].msg], source |-> "enhanced-rules"]
              /\ responseCache' = responseCache]_vars

\* an output of exactly 15 characters was turned down
WitnessShortOutputRejected ==
    \E c \in Calls :
        /\ Completed(c)
        /\ calls[c].output.kind = "text"
        /\ Len(Cleaned[calls[c].output.text]) = 15
        /\ calls[c].result.source = "enhanced-rules"

\* the invocation i of initialize() is made in this step
InitializeCalled(i) == inits[i].pc = "notCalled" /\ inits'[i].pc # "notCalled"

\* C10: an initialize() call made while the adapter is loading or ready
\* returns at once the current readiness (false while loading, true when
\* ready), starts no import, model load or index load and changes no field;
\* over all calls the runtime, the model and the index are loaded at most
\* once.
InitializeIdempotent ==
    [][/\ \A i \in InitIds :
             (InitializeCalled(i) /\ (isLoading \/ isReady)) =>
                 /\ inits'[i] = [pc |-> "returned", ret |-> IF isReady THEN "true" ELSE "false"]
                 /\ UNCHANGED <<brainVars, loadCounters, responseCache, calls>>
       /\ imports' <= 1
       /\ modelLoads' <= 1
       /\ ragLoads' <= 1]_vars

\* a second call made during loading returned false, and loading finished
WitnessInitializeIdempotent ==
    \E i \in InitIds :
        /\ i > 1
        /\ inits[i] = [pc |-> "returned", ret |-> "false"]
        /\ isReady
        /\ modelLoads = 1

\* some initialize() call has run the loaders to their end
InitializationFinished == ~isLoading /\ \E i \in InitIds : inits[i].pc = "returned"

\* C11 as stated: after an initialization in which the runtime import, the
\* model construction, the weight fetch or the index load failed, the
\* adapter does not report ready.
InitFailureReportsUnavailable ==
    (InitializationFinished /\ (initFailure \/ ~ragReady)) => getStatus # "ready"

\* C11 amended: initialize() never throws and never answers false after
\* running the loaders: whichever sub-step failed, the call that loaded
\* resolves to true with isReady set and isLoading cleared, and getStatus
\* reports ready; a failed import, construction or weight fetch leaves the
\* model null (no inference), while a failed index load only clears
\* ragReady and leaves a loaded model usable.
InitFailureSwallowed ==
    InitializationFinished =>
        /\ isReady
        /\ getStatus = "ready"
        /\ \E i \in InitIds : inits[i] = [pc |-> "returned", ret |-> "true"]
        /\ \A i \in InitIds : inits[i].pc = "returned" => inits[i].ret \in {"true", "false"}
        /\ initFailure => (model = NULL /\ ~InferenceAvailable)
        /\ ~initFailure => InferenceAvailable

\* the weight fetch and the index load both failed and initialize returned
WitnessInitFailureSwallowed ==
    /\ InitializationFinished
    /\ initFailure /\ llamaCpp # NULL /\ model = NULL
    /\ ~ragReady
    /\ getStatus = "ready"

\* the lifecycle state of the SmolLMBrain adapter: loading while isLoading,
\* unloaded before the first load, then ready when inference is possible and
\* unavailable when the load left no runtime or no model
SmolLifecycle ==
    IF isLoading THEN "Loading"
    ELSE IF ~isReady THEN "Unloaded"
    ELSE IF InferenceAvailable THEN "Ready"
    ELSE "Unavailable"

\* the lifecycle state of the AIBrain adapter as the claim reads it: a load
\* that failed (initialize() returned false) has made it unavailable
AiLifecycle ==
    IF aiBrain.isLoading THEN "Loading"
    ELSE IF aiBrain.isReady THEN "Ready"
    ELSE IF \E i \in InitIds : aiInits[i].ret = "false" THEN "Unavailable"
    ELSE "Unloaded"

\* AIBrain.getStatus(): the status field
AIBrain_getStatus ==
    IF aiBrain.isLoading THEN "loading"
    ELSE IF aiBrain.isReady THEN "ready"
    ELSE "offline"

ClaimedMoves ==
    { <<"Unloaded", "Loading">>, <<"Loading", "Ready">>, <<"Loading", "Unavailable">> }

\* C12 as stated: each adapter moves only Unloaded -> Loading -> Ready or
\* Unloaded -> Loading -> Unavailable; Ready and Unavailable are never left.
LifecycleAsClaimed ==
    [][/\ SmolLifecycle' # SmolLifecycle => <<SmolLifecycle, SmolLifecycle'>> \in ClaimedMoves
       /\ AiLifecycle' # AiLifecycle => <<AiLifecycle, AiLifecycle'>> \in ClaimedMoves]_vars

\* C12 amended: SmolLMBrain moves only Unloaded -> Loading -> Ready or
\* Unloaded -> Loading -> Unavailable and leaves neither end state (a later
\* initialize() returns at once); AIBrain moves offline -> loading -> ready
\* and never leaves ready, but a failed load puts it back to offline
\* (isLoading and isReady both false), from where a later initialize() call
\* loads again and may reach ready.
LifecycleAmended ==
    [][/\ SmolLifecycle' # SmolLifecycle => <<SmolLifecycle, SmolLifecycle'>> \in ClaimedMoves
       /\ AIBrain_getStatus' # AIBrain_getStatus =>
             <<AIBrain_getStatus, AIBrain_getStatus'>> \in
                 { <<"offline", "loading">>, <<"loading", "ready">>, <<"loading", "offline">> }
       /\ \A i \in InitIds :
             (aiInits[i].pc # "returned" /\ aiInits'[i].pc = "returned" /\ aiInits'[i].ret = "false")
                 => AIBrain_getStatus' = "offline"
       /\ \A i \in InitIds :
             (aiInits[i].pc = "notCalled" /\ aiInits'[i].pc # "notCalled" /\ AIBrain_getStatus = "offline")
                 => AIBrain_getStatus' = "loading"]_vars

\* SmolLMBrain has ended unavailable and a later initialize() returned at
\* once, while AIBrain is ready after a first load that failed
WitnessLifecycleAmended ==
    /\ SmolLifecycle = "Unavailable"
    /\ \E i \in InitIds : i > 1 /\ inits[i] = [pc |-> "returned", ret |-> "true"]
    /\ AIBrain_getStatus = "ready"
    /\ \E i \in InitIds : aiInits[i].ret = "false"

\* C13 as stated: every reply shown is a cache, model or rules answer or the
\* "still loading" message, and a reply to a message sent after
\* initialization has finished is never the "still loading" message or
\* another failure text.
UserAlwaysAnswered ==
    app.replySource # "none" =>
        /\ app.replySource \in {"cache", "smollm2-local", "enhanced-rules", "undefined"}
        /\ app.replySource = "undefined" => app.reply = STILL_LOADING
        /\ app.sentWhenReady => app.replySource \in {"cache", "smollm2-local", "enhanced-rules"}

InFlight(cs) == { c \in Calls : cs[c].pc # "idle" }

\* C14: at most one generateResponse call is unresolved at any time; while
\* one is unresolved isLoading is true, and while isLoading is true no
\* step (a sendMessage or startChat invocation from the send button, the
\* Enter key or a quick-action button in particular) enters
\* generateResponse: the invocation returns at its guard.
AtMostOneInFlight ==
    [][/\ Cardinality(InFlight(calls')) <= 1
       /\ InFlight(calls') # {} => app'.isLoading
       /\ app.isLoading =>
             \A c \in Calls : calls[c].pc = "idle" => calls'[c] = calls[c]]_vars

\* a quick-action button was pressed while a request was awaiting its
\* completion, and the handler returned at the guard
WitnessAtMostOneInFlight ==
    /\ app.isLoading
    /\ app.lastEvent = "refused"
    /\ app.input \in QuickActions
    /\ \E c \in Calls : calls[c].pc = "awaitCompletion"

\* C15 as stated: whenever isReady is true (getStatus answers ready) the
\* runtime and the model are loaded.
ReadyImpliesModel ==
    (isReady /\ getStatus = "ready") => (llamaCpp # NULL /\ model # NULL)

\* C15 amended: isReady says that initialization has completed, not that a
\* model is loaded: when isReady is true, llamaCpp and model are both
\* non-null exactly when no step of the model load failed; inference is
\* attempted only with both handles non-null, and a ready adapter without
\* them answers without an inference call.
InferenceImpliesModel ==
    /\ isReady => ((llamaCpp # NULL /\ model # NULL) <=> ~initFailure)
    /\ \A c \in Calls :
          /\ calls[c].inferences = 1 => (llamaCpp # NULL /\ model # NULL)
          /\ (calls[c].readyAtEntry /\ model = NULL) =>
                (calls[c].inferences = 0 /\ calls[c].pc = "idle")

\* a ready adapter whose weight fetch failed has answered from the rules
WitnessInferenceImpliesModel ==
    /\ isReady /\ getStatus = "ready"
    /\ llamaCpp # NULL /\ model = NULL
    /\ \E c \in Calls :
          /\ calls[c].readyAtEntry
          /\ calls[c].inferences = 0
          /\ calls[c].result.source = "enhanced-rules"

\* the outputs whose cleaned text is longer than 15 characters and is not
\* generic
PassesGate == { t \in Completions : Len(Cleaned[t]) > 15 /\ ~isGenericResponse(Cleaned[t]) }

\* C16: the cache changes only in a step in which a generateResponse call
\* returns a model answer whose output passed the quality gate, and that
\* step stores the cleaned text under the call's key; a call that returns a
\* rule-based answer, the sentinel or a cached text leaves the cache as it
\* is; and a key that stays in the cache keeps its text.
CacheOnlyFromAcceptedAnswers ==
    [][/\ responseCache' # responseCache =>
             \E c \in Calls :
                 /\ Returned(c)
                 /\ calls'[c].output.kind = "text"
                 /\ calls'[c].output.text \in PassesGate
                 /\ calls'[c].result =
                       [success |-> TRUE, message |-> Cleaned[calls'[c].output.text],
                        source |-> "smollm2-local"]
                 /\ MapGet(responseCache', calls[c].key) = Cleaned[calls'[c].output.text]
                 /\ CacheKeys(responseCache') \subseteq CacheKeys(responseCache) \cup {calls[c].key}
       /\ \A c \in Calls :
             (calls'[c] # calls[c] /\ calls'[c].pc = "idle"
                 /\ calls'[c].result.source # "smollm2-local") => responseCache' = responseCache
       /\ \A k \in CacheKeys(responseCache) \cap CacheKeys(responseCache') :
             MapGet(responseCache', k) = MapGet(responseCache, k)]_vars

\* a rejected output was answered from the rules while the cache kept the
\* entry an accepted answer had created
WitnessCacheOnlyFromAcceptedAnswers ==
    /\ Len(responseCache) = 1
    /\ \E c \in Calls :
          /\ Completed(c)
          /\ calls[c].output.kind = "text"
          /\ calls[c].output.text \notin PassesGate
          /\ calls[c].result.source = "enhanced-rules"
          /\ calls[c].key \notin CacheKeys(responseCache)

\* the decision as the claim words it: reject at 15 characters or fewer, on
\* an avoidant phrase in any letter case, or below 30 characters with
\* "help" or "assist"
ClaimedReject(text) ==
    \/ Len(text) <= 15
    \/ \E i \in 1..Len(badPhrases) : includes(toLowerCase(text), toLowerCase(badPhrases[i]))
    \/ Len(text) < 30 /\ (includes(toLowerCase(text), "help") \/ includes(toLowerCase(text), "assist"))

\* cleaned texts around every limit of the gate
GateTexts ==
    { "",
      "Open Sales menu",
      "Open Sales menu.",
      "I can help you with that.",
      "I CAN ASSIST YOU RIGHT NOW.",
      "Use the help menu here today.",
      "Use the help menu there today.",
      "You can get help from the Banking menu at any time.",
      "Our team will assist you with the bank feed setup.",
      "Unfortunately I'M UNABLE TO PROVIDE that report for you.",
      "i don't have access to your company file, sorry.",
      "As a udas-guided ai I would open the Banking menu.",
      "Go to Sales, then Invoices, then Create invoice." }
        \cup { Cleaned[t] : t \in Completions }

GateTableAgrees == \A text \in GateTexts : AcceptsResponse(text) <=> ~ClaimedReject(text)

ClaimedRejects == [t \in Completions |-> ClaimedReject(Cleaned[t])]

\* C17: a cleaned model output is rejected, and the call answers from the
\* rules, exactly when it has 15 characters or fewer, or contains in any
\* letter case a phrase of the avoidant list, or has fewer than 30
\* characters and contains "help" or "assist"; every other output is
\* returned as it was cleaned, with the model source.
QualityGateDecision ==
    /\ GateTableAgrees
    /\ \A c \in Calls :
          (Completed(c) /\ calls[c].output.kind = "text") =>
              IF ClaimedRejects[calls[c].output.text]
              THEN calls[c].result =
                      [success |-> TRUE, message |-> Guidance[calls[c].msg], source |-> "enhanced-rules"]
              ELSE calls[c].result =
                      [success |-> TRUE, message |-> Cleaned[calls[c].output.text], source |-> "smollm2-local"]

\* a short output with "help" was turned down and the cache holds an
\* output of 16 characters that was accepted
WitnessQualityGateDecision ==
    /\ \E c \in Calls :
          /\ Completed(c)
          /\ calls[c].output = [kind |-> "text", text |-> "I can help you with that."]
          /\ calls[c].result.source = "enhanced-rules"
    /\ \E i \in 1..Len(responseCache) : responseCache[i].value = "Open Sales menu."

\* C18 as stated: after AIBrain.initialize() has returned false, every
\* generateResponse(m) call returns the rule-based answer for m, not a
\* loading or error message.
AIBrainFailedLoadAnswersByRules ==
    \A c \in Calls :
        (aiCalls[c].pc = "idle" /\ aiCalls[c].msg # "" /\ aiCalls[c].failedAtEntry) =>
            /\ aiCalls[c].result.success
            /\ aiCalls[c].result.message = RuleBased[aiCalls[c].msg]

\* the matches the loop pushes when the categories in empty hold no entry
RECURSIVE MatchesWithout(_, _, _, _)
MatchesWithout(m, layer, cats, empty) ==
    IF cats = <<>> THEN <<>>
    ELSE (IF Head(cats) \in empty THEN <<>> ELSE CategoryMatches[m][layer][Head(cats)])
             \o MatchesWithout(m, layer, Tail(cats), empty)

\* C19: when the load of a relevant category fails during a search, the
\* search does not throw, no returned entry comes from that category, the
\* result is the one the search gives with that category empty, and the
\* category is not stored in this.knowledge.
KnowledgeLoadIsolated ==
    /\ \A category \in search.failed : knowledge[category] = NotLoaded
    /\ (search.pc = "done" /\ search.failed # {}) =>
          /\ ~search.threw
          /\ \A x \in 1..Len(search.result) : search.result[x].category \notin search.failed
          /\ search.result =
                slice0(SortByScore(MatchesWithout(search.msg, search.layer, search.cats, search.failed)), 3)

\* the banking file could not be loaded, the invoicing file could, and the
\* search returned the two invoicing entries
WitnessKnowledgeLoadIsolated ==
    /\ search.pc = "done"
    /\ search.failed = {"banking"}
    /\ search.loadedNow = {"invoicing"}
    /\ Len(search.result) = 2
    /\ \A x \in 1..Len(search.result) : search.result[x].category = "invoicing"

\* the entries of the loaded relevant categories that qualify for a search:
\* those of the given layer whose score is greater than 0.3
Qualifying(sr) ==
    { e \in UNION { { [issue |-> KnowledgeFiles[category][sr.layer][x].issue,
                       score |-> calculateRelevanceScore(SearchKeywords[sr.msg],
                                     KnowledgeFiles[category][sr.layer][x].trigger_keywords),
                       category |-> category,
                       layer |-> sr.layer] :
                      x \in 1..Len(KnowledgeFiles[category][sr.layer]) } :
                    category \in { sr.cats[k] : k \in 1..Len(sr.cats) } \ sr.failed } :
        e.score.total > 0 /\ 10 * e.score.matches > 3 * e.score.total }

\* C20: a search that returns gives at most 3 entries, each with a score
\* greater than 0.3, of the given layer and of one of the at most 2
\* relevant categories, in non-increasing order of score, and no qualifying
\* entry left out has a score greater than that of a returned entry.
SearchResultBounded ==
    (search.pc = "done" /\ ~search.threw) =>
        LET result == search.result
            returned == { result[x] : x \in 1..Len(result) }
        IN  /\ Len(result) <= 3
            /\ Len(search.cats) <= 2
            /\ returned \subseteq Qualifying(search)
            /\ \A x \in 1..Len(result) :
                  /\ 10 * result[x].score.matches > 3 * result[x].score.total
                  /\ result[x].layer = search.layer
                  /\ \E k \in 1..Len(search.cats) : search.cats[k] = result[x].category
            /\ \A x, y \in 1..Len(result) :
                  x < y => result[y].score.matches * result[x].score.total
                               <= result[x].score.matches * result[y].score.total
            /\ \A q \in Qualifying(search) \ returned : \A r \in returned :
                  q.score.matches * r.score.total <= r.score.matches * q.score.total

\* four entries of two categories qualified and the three best came back,
\* the best first
WitnessSearchResultBounded ==
    /\ search.pc = "done" /\ ~search.threw
    /\ Len(search.cats) = 2
    /\ Cardinality(Qualifying(search)) = 4
    /\ Len(search.result) = 3
    /\ search.result[1].score = [matches |-> 2, total |-> 2]

(***************************************************************************)
(* identifyRelevantCategories                                              *)
(***************************************************************************)
\* the position of a category in this.categories
CategoryIndex(category) == CHOOSE x \in 1..Len(categories) : categories[x] = category

\* the number of keywords of the list that the index has and maps to the category
KeywordsMappedTo(keywords, category) ==
    Cardinality({ u \in 1..Len(keywords) :
                    /\ keywords[u] \in DOMAIN searchIndexKeywords
                    /\ \E x \in 1..Len(searchIndexKeywords[keywords[u]]) :
                          searchIndexKeywords[keywords[u]][x] = category })

\* c comes before d: a greater score, or the same score and declared earlier
RanksBefore(keywords, c, d) ==
    \/ KeywordsMappedTo(keywords, c) > KeywordsMappedTo(keywords, d)
    \/ /\ KeywordsMappedTo(keywords, c) = KeywordsMappedTo(keywords, d)
       /\ CategoryIndex(c) < CategoryIndex(d)

\* the returned list is the first two of the categories with a positive
\* score in that order
CategoriesRanked(keywords, result) ==
    LET positive == { c \in CategorySet : KeywordsMappedTo(keywords, c) > 0 }
        returned == { result[x] : x \in 1..Len(result) }
    IN  /\ Len(result) = (IF Cardinality(positive) < 2 THEN Cardinality(positive) ELSE 2)
        /\ returned \subseteq positive
        /\ \A x, y \in 1..Len(result) : x < y => RanksBefore(keywords, result[x], result[y])
        /\ \A c \in positive \ returned : \A d \in returned : RanksBefore(keywords, d, c)

\* C21: identifyRelevantCategories(keywords) returns, for every keyword
\* list, the categories with a positive score (one point per keyword the
\* index has and maps to the category), by descending score, ties in the
\* declared order, the first two.
RelevantCategoriesAsClaimed ==
    probe.fn = "identifyRelevantCategories" =>
        /\ ~probe.out.threw
        /\ CategoriesRanked(probe.args[1], probe.out.value)

(***************************************************************************)
(* calculateRelevanceScore                                                 *)
(***************************************************************************)
\* the score is the number 0
ScoreIsZero(score) == score.total > 0 /\ score.matches = 0

\* C22: with an empty trigger keyword list calculateRelevanceScore returns
\* the number 0, whatever the user keywords are.
EmptyTriggersScoreZero ==
    (probe.fn = "calculateRelevanceScore" /\ probe.args[2] = <<>>) =>
        /\ ~IsNaN(probe.out.value)
        /\ ScoreIsZero(probe.out.value)

\* the number of triggers that at least one user keyword matches
MatchedTriggers(userKeywords, triggerKeywords) ==
    Cardinality({ t \in 1..Len(triggerKeywords) :
                    \E u \in 1..Len(userKeywords) :
                        isKeywordMatch(userKeywords[u], triggerKeywords[t]) })

\* C23: for a non-empty trigger list T the score is (triggers matched by at
\* least one user keyword) / |T|, each trigger counted once, so it lies in
\* [0, 1]; it is 0 for no user keywords and 1 for the user keywords T.
RelevanceScoreBoundaries ==
    (probe.fn = "calculateRelevanceScore" /\ probe.args[2] # <<>>) =>
        LET userKeywords == probe.args[1]
            triggerKeywords == probe.args[2]
            score == probe.out.value
        IN  /\ score.total = Len(triggerKeywords)
            /\ score.matches = MatchedTriggers(userKeywords, triggerKeywords)
            /\ 0 <= score.matches /\ score.matches <= score.total
            /\ userKeywords = <<>> => ScoreIsZero(score)
            /\ userKeywords = triggerKeywords => score.matches = score.total

\* two user keywords match the first of two triggers (one exactly, one by
\* edit distance) and none the second: the score is 1/2
WitnessRelevanceScoreBoundaries ==
    /\ probe.fn = "calculateRelevanceScore"
    /\ probe.args = << << "bank", "banc" >>, << "bank", "pay" >> >>
    /\ probe.out.value = [matches |-> 1, total |-> 2]

(***************************************************************************)
(* determineCurrentUdasLayer                                               *)
(***************************************************************************)
\* the positions in the index of the layers with a keyword that occurs in
\* the lower-cased message
LayersHit(userMessage) ==
    { x \in 1..Len(udas_layers) :
        \E k \in 1..Len(udas_layers[x].keywords) :
            includes(toLowerCase(userMessage), udas_layers[x].keywords[k]) }

\* C24: determineCurrentUdasLayer returns the first layer, in the order of
\* the search index, that has a keyword occurring in the lower-cased
\* message, and 'user' when no layer has one.
LayerDetermined ==
    probe.fn = "determineCurrentUdasLayer" =>
        LET hits == LayersHit(probe.args[1])
        IN  IF hits = {}
            THEN probe.out.value = "user"
            ELSE \E x \in hits :
                    /\ \A y \in hits : x <= y
                    /\ probe.out.value = udas_layers[x].layer

\* keywords of three layers occur, the one of the first declared layer last
\* but one in the text: that layer is returned, and it is not the default
WitnessLayerDetermined ==
    /\ probe.fn = "determineCurrentUdasLayer"
    /\ probe.args = << "the app will crash when I login with missing data" >>
    /\ Cardinality(LayersHit(probe.args[1])) = 3
    /\ probe.out.value = "system"

(***************************************************************************)
(* calculateLevenshteinDistance                                            *)
(***************************************************************************)
\* the edit distance by its recursive definition: the cheapest of deleting
\* the first character of a, inserting the first character of b, and
\* substituting one for the other (free when they are equal)
RECURSIVE EditDistance(_, _)
EditDistance(a, b) ==
    IF Len(a) = 0 THEN Len(b)
    ELSE IF Len(b) = 0 THEN Len(a)
    ELSE LET restA == SubSeq(a, 2, Len(a))
             restB == SubSeq(b, 2, Len(b))
             del == EditDistance(restA, b) + 1
             ins == EditDistance(a, restB) + 1
             sub == EditDistance(restA, restB) + (IF CharAt(a, 1) = CharAt(b, 1) THEN 0 ELSE 1)
         IN  IF del <= ins /\ del <= sub THEN del ELSE IF ins <= sub THEN ins ELSE sub

\* C25: calculateLevenshteinDistance(a, b) is the edit distance of a and b
\* with insertion, deletion and substitution at cost 1 each: 0 for a = b,
\* 1 for 'bank' against 'banc' and against 'bunk'.
LevenshteinIsEditDistance ==
    probe.fn = "calculateLevenshteinDistance" =>
        LET a == probe.args[1]
            b == probe.args[2]
        IN  /\ probe.out.value = EditDistance(a, b)
            /\ a = b => probe.out.value = 0
            /\ (a = "bank" /\ b \in { "banc", "bunk" }) => probe.out.value = 1

\* one substitution in the middle of a word
WitnessLevenshteinIsEditDistance ==
    /\ probe.fn = "calculateLevenshteinDistance"
    /\ probe.args = << "bank", "bunk" >>
    /\ probe.out.value = 1

(***************************************************************************)
(* The cached texts                                                        *)
(***************************************************************************)
\* isGenericResponse on the texts cleanResponse can produce
GenericText == [text \in { Cleaned[t] : t \in Completions } |-> isGenericResponse(text)]

\* C26: every text stored in responseCache is longer than 15 characters and
\* is not generic by isGenericResponse, so no cache hit returns an empty, a
\* too short or an avoidant answer.
CachedTextsPassedGate ==
    \A i \in 1..Len(responseCache) :
        /\ Len(responseCache[i].value) > 15
        /\ responseCache[i].value \in DOMAIN GenericText
        /\ ~GenericText[responseCache[i].value]

\* the cache is full of accepted texts and a call has been answered from it
WitnessCachedTextsPassedGate ==
    /\ Len(responseCache) = maxCacheSize
    /\ \E c \in Calls :
          /\ calls[c].result.source = "cache"
          /\ \E i \in 1..Len(responseCache) :
                calls[c].result.message = responseCache[i].value

(***************************************************************************)
(* The cache under overlapping generateResponse calls                      *)
(***************************************************************************)
\* C27: with several generateResponse calls in flight at once, interleaved
\* at their awaits, responseCache never holds more than maxCacheSize
\* entries (the entries of a Map have distinct keys).
CacheBoundOverlapping ==
    /\ Cardinality(CacheKeys(responseCache)) = Len(responseCache)
    /\ Len(responseCache) <= maxCacheSize

\* the cache is full and holds a key that a call still waiting for
\* createCompletion missed when it started: another call, for the same key,
\* has inserted it since, and the waiting call may insert it again
WitnessCacheBoundOverlapping ==
    /\ Len(responseCache) = maxCacheSize
    /\ \E c, d \in Calls :
          /\ c # d
          /\ calls[c].pc = "awaitCompletion"
          /\ calls[c].key \in CacheKeys(responseCache)
          /\ calls[d].pc = "idle"
          /\ calls[d].key = calls[c].key
          /\ calls[d].result.source = "smollm2-local"

\* C28: an insertion evicts only when its key is new to the cache, so no
\* step makes the cache smaller, overlapping calls for one key included.
CacheNeverShrinks ==
    [][/\ Len(responseCache') >= Len(responseCache)
       /\ CacheKeys(responseCache) \ CacheKeys(responseCache') # {} =>
             CacheKeys(responseCache') \ CacheKeys(responseCache) # {}]_vars

(***************************************************************************)
(* What a call leaves of the cache                                         *)
(***************************************************************************)
\* C29: the steps of a generateResponse call that ends with a cached or a
\* rule-based answer leave responseCache as it is, keys, texts and order;
\* the cache changes only in the step in which a call returns a
\* model-sourced answer.
ReadOnlyOutcomesKeepCache ==
    [][/\ \A c \in Calls :
             (calls'[c] # calls[c] /\ calls'[c].result.source # "smollm2-local") =>
                 responseCache' = responseCache
       /\ responseCache' # responseCache =>
             \E c \in Calls : Returned(c) /\ calls'[c].result.source = "smollm2-local"]_vars

\* createCompletion was rejected while the cache was full: the call was
\* answered from the rules for a key that is not cached
WitnessReadOnlyOutcomesKeepCache ==
    /\ Len(responseCache) = maxCacheSize
    /\ \E c \in Calls :
          /\ calls[c].pc = "idle"
          /\ calls[c].output.kind = "throws"
          /\ calls[c].result.source = "enhanced-rules"
          /\ calls[c].key \notin CacheKeys(responseCache)

(***************************************************************************)
(* The input controls                                                      *)
(***************************************************************************)
\* C30: when the awaited pipeline promises settle, every message accepted
\* by sendMessage is followed by isLoading = false (setLoading(false)
\* re-enables the field and the button), and each accepted message gets
\* exactly one bot message: one is owed while the request is in flight and
\* none otherwise.
InputReenabled ==
    /\ [](app.owed = IF app.isLoading THEN 1 ELSE 0)
    /\ (app.isLoading ~> ~app.isLoading)

\* a message was accepted, waited for the pipeline, and its model answer
\* has been added with the controls enabled again
WitnessInputReenabled ==
    /\ app.lastEvent = "accepted"
    /\ ~app.isLoading
    /\ app.owed = 0
    /\ app.replySource = "smollm2-local"
    /\ app.reply # ""

====
